---------------------------- MODULE Spec2Model ----------------------------
(***************************************************************************)
(* Model of Otter Browser's Adblock content filters profile                *)
(* (src/core/AdblockContentFiltersProfile.cpp): the rule parser, the       *)
(* character trie, the URL matcher, the cosmetic tables and the header     *)
(* scanner.                                                                *)
(*                                                                         *)
(* A QString is a sequence of one-character strings; positions in the      *)
(* string operators are 0-based as in Qt.  A trie node is identified by    *)
(* the path of characters leading to it from the root; the trie is a       *)
(* function from paths to node records whose children field lists the      *)
(* values of the children in their stored order.                           *)
(***************************************************************************)
EXTENDS Integers, Sequences, FiniteSets, TLC

(***************************************************************************)
(* QString operations used by the profile                                  *)
(***************************************************************************)

Min(S) == CHOOSE x \in S : \A y \in S : x <= y

Mid(s, pos) == IF pos >= Len(s) THEN <<>> ELSE SubSeq(s, (IF pos < 0 THEN 0 ELSE pos) + 1, Len(s))

Left(s, n) == IF n < 0 \/ n >= Len(s) THEN s ELSE SubSeq(s, 1, n)

Right(s, n) == IF n < 0 \/ n >= Len(s) THEN s ELSE SubSeq(s, Len(s) - n + 1, Len(s))

StartsWith(s, p) == Len(p) <= Len(s) /\ SubSeq(s, 1, Len(p)) = p

EndsWith(s, p) == Len(p) <= Len(s) /\ SubSeq(s, Len(s) - Len(p) + 1, Len(s)) = p

IndexOf(s, p) ==
    LET hits == {i \in 0..(Len(s) - Len(p)) : SubSeq(s, i + 1, i + Len(p)) = p}
    IN IF hits = {} THEN -1 ELSE Min(hits)

Contains(s, p) == IndexOf(s, p) >= 0

RECURSIVE Split(_, _)
Split(s, sep) ==
    LET at == IndexOf(s, sep)
    IN IF at < 0 THEN <<s>>
       ELSE <<SubSeq(s, 1, at)>> \o Split(Mid(s, at + Len(sep)), sep)

RECURSIVE SkipEmptyParts(_)
SkipEmptyParts(parts) ==
    IF parts = <<>> THEN <<>>
    ELSE IF Head(parts) = <<>> THEN SkipEmptyParts(Tail(parts))
    ELSE <<Head(parts)>> \o SkipEmptyParts(Tail(parts))

RECURSIVE Join(_)
Join(parts) == IF parts = <<>> THEN <<>> ELSE Head(parts) \o Join(Tail(parts))

Remove(s, p) == Join(Split(s, p))

IsSpace(c) == c \in {" ", "\t"}

RECURSIVE TrimLeft(_)
TrimLeft(s) == IF s # <<>> /\ IsSpace(Head(s)) THEN TrimLeft(Tail(s)) ELSE s

RECURSIVE TrimRight(_)
TrimRight(s) == IF s # <<>> /\ IsSpace(s[Len(s)]) THEN TrimRight(SubSeq(s, 1, Len(s) - 1)) ELSE s

Trimmed(s) == TrimRight(TrimLeft(s))

Letters == {"a", "b", "c", "d", "e", "f", "g", "h", "i", "j", "k", "l", "m",
            "n", "o", "p", "q", "r", "s", "t", "u", "v", "w", "x", "y", "z",
            "A", "B", "C", "D", "E", "F", "G", "H", "I", "J", "K", "L", "M",
            "N", "O", "P", "Q", "R", "S", "T", "U", "V", "W", "X", "Y", "Z"}

Digits == {"0", "1", "2", "3", "4", "5", "6", "7", "8", "9"}

IsLetter(c) == c \in Letters

UpperCase == <<"A", "B", "C", "D", "E", "F", "G", "H", "I", "J", "K", "L", "M",
               "N", "O", "P", "Q", "R", "S", "T", "U", "V", "W", "X", "Y", "Z">>

LowerCase == <<"a", "b", "c", "d", "e", "f", "g", "h", "i", "j", "k", "l", "m",
               "n", "o", "p", "q", "r", "s", "t", "u", "v", "w", "x", "y", "z">>

ToLower(s) ==
    [i \in 1..Len(s) |->
        IF \E k \in 1..Len(UpperCase) : UpperCase[k] = s[i]
        THEN LowerCase[CHOOSE k \in 1..Len(UpperCase) : UpperCase[k] = s[i]]
        ELSE s[i]]

\* contains(p, Qt::CaseInsensitive)
ContainsCaseInsensitive(s, p) == Contains(ToLower(s), ToLower(p))

IsDigit(c) == c \in Digits

(***************************************************************************)
(* Static tables                                                           *)
(***************************************************************************)

m_separators == {"_", "-", ".", "%"}

str_third_party == <<"t","h","i","r","d","-","p","a","r","t","y">>
str_stylesheet == <<"s","t","y","l","e","s","h","e","e","t">>
str_image == <<"i","m","a","g","e">>
str_script == <<"s","c","r","i","p","t">>
str_object == <<"o","b","j","e","c","t">>
str_object_subrequest == <<"o","b","j","e","c","t","-","s","u","b","r","e","q","u","e","s","t">>
str_object_subrequest2 == <<"o","b","j","e","c","t","_","s","u","b","r","e","q","u","e","s","t">>
str_subdocument == <<"s","u","b","d","o","c","u","m","e","n","t">>
str_xmlhttprequest == <<"x","m","l","h","t","t","p","r","e","q","u","e","s","t">>
str_websocket == <<"w","e","b","s","o","c","k","e","t">>
str_popup == <<"p","o","p","u","p">>
str_elemhide == <<"e","l","e","m","h","i","d","e">>
str_generichide == <<"g","e","n","e","r","i","c","h","i","d","e">>
str_domain == <<"d","o","m","a","i","n">>
str_adblock == <<"[","A","d","b","l","o","c","k">>
str_title == <<"!"," ","T","i","t","l","e",":"," ">>

m_options ==
    [n \in {str_third_party, str_stylesheet, str_image, str_script, str_object,
            str_object_subrequest, str_object_subrequest2, str_subdocument,
            str_xmlhttprequest, str_websocket, str_popup, str_elemhide, str_generichide} |->
        CASE n = str_third_party -> "ThirdPartyOption"
          [] n = str_stylesheet -> "StyleSheetOption"
          [] n = str_image -> "ImageOption"
          [] n = str_script -> "ScriptOption"
          [] n = str_object -> "ObjectOption"
          [] n = str_object_subrequest -> "ObjectSubRequestOption"
          [] n = str_object_subrequest2 -> "ObjectSubRequestOption"
          [] n = str_subdocument -> "SubDocumentOption"
          [] n = str_xmlhttprequest -> "XmlHttpRequestOption"
          [] n = str_websocket -> "WebSocketOption"
          [] n = str_popup -> "PopupOption"
          [] n = str_elemhide -> "ElementHideOption"
          [] n = str_generichide -> "GenericHideOption"]

m_resourceTypes ==
    [t \in {"ImageType", "ScriptType", "StyleSheetType", "ObjectType", "XmlHttpRequestType",
            "SubFrameType", "PopupType", "ObjectSubrequestType", "WebSocketType"} |->
        CASE t = "ImageType" -> "ImageOption"
          [] t = "ScriptType" -> "ScriptOption"
          [] t = "StyleSheetType" -> "StyleSheetOption"
          [] t = "ObjectType" -> "ObjectOption"
          [] t = "XmlHttpRequestType" -> "XmlHttpRequestOption"
          [] t = "SubFrameType" -> "SubDocumentOption"
          [] t = "PopupType" -> "PopupOption"
          [] t = "ObjectSubrequestType" -> "ObjectSubRequestOption"
          [] t = "WebSocketType" -> "WebSocketOption"]

m_domainExpression == {":", "?", "&", "/", "="}


(***************************************************************************)
(* Rules and the trie                                                      *)
(***************************************************************************)

NoOption == {}

NewRule ==
    [rule |-> <<>>, ruleOptions |-> NoOption, ruleExceptions |-> NoOption,
     blockedDomains |-> <<>>, allowedDomains |-> <<>>, ruleMatch |-> "ContainsMatch",
     isException |-> FALSE, needsDomainCheck |-> FALSE]

NewNode(value) == [value |-> value, children |-> <<>>, rules |-> <<>>]

\* m_root = new Node(): the root alone, reached by the empty path
NewRoot == (<<>> :> NewNode(""))

\* QMultiHash<QString, QString>: the (key, value) pairs in insertion order
MultiHashInsert(list, key, value) == Append(list, <<key, value>>)

\* QMultiHash::values(key): the values of the key, most recently inserted first
RECURSIVE MultiHashValues(_, _)
MultiHashValues(list, key) ==
    IF list = <<>> THEN <<>>
    ELSE MultiHashValues(Tail(list), key)
         \o (IF Head(list)[1] = key THEN <<Head(list)[2]>> ELSE <<>>)

RECURSIVE insertDomains(_, _, _, _)
insertDomains(list, domains, i, selector) ==
    IF i > Len(domains) THEN list
    ELSE insertDomains(MultiHashInsert(list, domains[i], selector), domains, i + 1, selector)

parseStyleSheetRule(line, list) ==
    insertDomains(list, Split(line[1], <<",">>), 1, line[2])

\* the option tokens after the first '$'
ruleOptionsList(rule) ==
    LET optionsSeparator == IndexOf(rule, <<"$">>)
    IN IF optionsSeparator >= 0
       THEN SkipEmptyParts(Split(Mid(rule, optionsSeparator + 1), <<",">>))
       ELSE <<>>

\* the pattern before the first '$'
rulePattern(rule) ==
    LET optionsSeparator == IndexOf(rule, <<"$">>)
    IN IF optionsSeparator >= 0 THEN Left(rule, optionsSeparator) ELSE rule

\* one trailing and one leading '*' are removed
stripWildcards(line) ==
    LET noTail == IF EndsWith(line, <<"*">>) THEN SubSeq(line, 1, Len(line) - 1) ELSE line
    IN IF StartsWith(noTail, <<"*">>) THEN Mid(noTail, 1) ELSE noTail

\* "@@", "||", leading '|' and trailing '|' are consumed in this order
parseAnchors(rule, stripped) ==
    LET isException == StartsWith(stripped, <<"@", "@">>)
        line1 == IF isException THEN Mid(stripped, 2) ELSE stripped
        needsDomainCheck == StartsWith(line1, <<"|", "|">>)
        line2 == IF needsDomainCheck THEN Mid(line1, 2) ELSE line1
        isStart == StartsWith(line2, <<"|">>)
        line3 == IF isStart THEN Mid(line2, 1) ELSE line2
        isEnd == EndsWith(line3, <<"|">>)
        line4 == IF isEnd THEN SubSeq(line3, 1, Len(line3) - 1) ELSE line3
        ruleMatch == IF isEnd THEN (IF isStart THEN "ExactMatch" ELSE "EndMatch")
                     ELSE IF isStart THEN "StartMatch" ELSE "ContainsMatch"
    IN [definition |-> [NewRule EXCEPT !.rule = rule, !.isException = isException,
                                       !.needsDomainCheck = needsDomainCheck,
                                       !.ruleMatch = ruleMatch],
        line |-> line4]

RECURSIVE parseDomains(_, _, _)
parseDomains(definition, parsedDomains, j) ==
    IF j > Len(parsedDomains) THEN definition
    ELSE IF StartsWith(parsedDomains[j], <<"~">>)
         THEN parseDomains([definition EXCEPT !.allowedDomains = Append(@, Mid(parsedDomains[j], 1))],
                           parsedDomains, j + 1)
         ELSE parseDomains([definition EXCEPT !.blockedDomains = Append(@, parsedDomains[j])],
                           parsedDomains, j + 1)

\* the loop over the option tokens; ok = FALSE when an unknown token ends the parse
RECURSIVE parseOptions(_, _, _)
parseOptions(definition, options, i) ==
    IF i > Len(options) THEN [ok |-> TRUE, definition |-> definition]
    ELSE
        LET optionException == StartsWith(options[i], <<"~">>)
            optionName == IF optionException THEN Mid(options[i], 1) ELSE options[i]
        IN IF optionName \in DOMAIN m_options
           THEN LET option == m_options[optionName]
                IN IF (~definition.isException \/ optionException)
                      /\ option \in {"ElementHideOption", "GenericHideOption"}
                   THEN parseOptions(definition, options, i + 1)
                   ELSE IF ~optionException
                   THEN parseOptions([definition EXCEPT !.ruleOptions = @ \cup {option}],
                                     options, i + 1)
                   ELSE IF option \notin {"WebSocketOption", "PopupOption"}
                   THEN parseOptions([definition EXCEPT !.ruleExceptions = @ \cup {option}],
                                     options, i + 1)
                   ELSE parseOptions(definition, options, i + 1)
           ELSE IF StartsWith(optionName, str_domain)
           THEN LET parsedDomains ==
                        SkipEmptyParts(Split(Mid(options[i], IndexOf(options[i], <<"=">>) + 1), <<"|">>))
                IN parseOptions(parseDomains(definition, parsedDomains, 1), options, i + 1)
           ELSE [ok |-> FALSE, definition |-> definition]

\* the descent with every new child appended
RECURSIVE insertRule_appendAlways(_, _, _, _, _)
insertRule_appendAlways(root, node, line, i, definition) ==
    IF i > Len(line) THEN [root EXCEPT ![node].rules = Append(@, definition)]
    ELSE
        LET value == line[i]
            nextNode == Append(node, value)
            childrenExists == \E j \in 1..Len(root[node].children) : root[node].children[j] = value
        IN IF childrenExists THEN insertRule_appendAlways(root, nextNode, line, i + 1, definition)
           ELSE LET grown == [root EXCEPT ![node].children = Append(@, value)]
                             @@ (nextNode :> NewNode(value))
                IN insertRule_appendAlways(grown, nextNode, line, i + 1, definition)

\* the descent that creates missing nodes; a new '^' child goes to the front
RECURSIVE insertRule(_, _, _, _, _)
insertRule(root, node, line, i, definition) ==
    IF i > Len(line) THEN [root EXCEPT ![node].rules = Append(@, definition)]
    ELSE
        LET value == line[i]
            nextNode == Append(node, value)
            childrenExists == \E j \in 1..Len(root[node].children) : root[node].children[j] = value
        IN IF childrenExists THEN insertRule(root, nextNode, line, i + 1, definition)
           ELSE LET children == IF value = "^" THEN <<value>> \o root[node].children
                                ELSE Append(root[node].children, value)
                    grown == [root EXCEPT ![node].children = children] @@ (nextNode :> NewNode(value))
                IN insertRule(grown, nextNode, line, i + 1, definition)

\* the network-rule part of parseRuleLine; the trie is returned unchanged when the
\* line is dropped
parseNetworkRule(root, rule, wildcardsEnabled) ==
    LET options == ruleOptionsList(rule)
        stripped == stripWildcards(rulePattern(rule))
        anchored == parseAnchors(rule, stripped)
        parsed == parseOptions(anchored.definition, options, 1)
    IN IF ~wildcardsEnabled /\ Contains(stripped, <<"*">>) THEN root
       ELSE IF ~parsed.ok THEN root
       ELSE insertRule(root, <<>>, anchored.line, 1, parsed.definition)

\* parseRuleLine on the profile's tables; mode is
\* ContentFiltersManager::getCosmeticFiltersMode()
parseRuleLine(st, rule, mode, wildcardsEnabled) ==
    IF rule = <<>> \/ IndexOf(rule, <<"!">>) = 0 THEN st
    ELSE IF StartsWith(rule, <<"#", "#">>)
    THEN IF mode = "AllFilters"
         THEN [st EXCEPT !.m_cosmeticFiltersRules = Append(@, Mid(rule, 2))]
         ELSE st
    ELSE IF Contains(rule, <<"#", "#">>)
    THEN IF mode # "NoFilters"
         THEN [st EXCEPT !.m_cosmeticFiltersDomainRules =
                             parseStyleSheetRule(Split(rule, <<"#", "#">>), @)]
         ELSE st
    ELSE IF Contains(rule, <<"#", "@", "#">>)
    THEN IF mode # "NoFilters"
         THEN [st EXCEPT !.m_cosmeticFiltersDomainExceptions =
                             parseStyleSheetRule(Split(rule, <<"#", "@", "#">>), @)]
         ELSE st
    ELSE [st EXCEPT !.m_root = parseNetworkRule(@, rule, wildcardsEnabled)]


(***************************************************************************)
(* Rule evaluation                                                         *)
(***************************************************************************)

\* ContentFiltersManager::CheckResult as default-constructed
NoResult ==
    [isBlocked |-> FALSE, isException |-> FALSE, rule |-> <<>>,
     comesticFiltersMode |-> "UnknownFilters"]

\* ContentFiltersManager::createSubdomainList: the host and its suffixes after each '.'
RECURSIVE createSubdomainList(_)
createSubdomainList(domain) ==
    LET dot == IndexOf(domain, <<".">>)
    IN IF dot < 0 THEN <<domain>>
       ELSE <<domain>> \o createSubdomainList(Mid(domain, dot + 1))

ListContains(list, x) == \E i \in 1..Len(list) : list[i] = x

\* the switch on ruleMatch
patternMatches(rule, currentRule, request) ==
    CASE rule.ruleMatch = "StartMatch" -> StartsWith(request.requestUrl, currentRule)
      [] rule.ruleMatch = "EndMatch" -> EndsWith(request.requestUrl, currentRule)
      [] rule.ruleMatch = "ExactMatch" -> request.requestUrl = currentRule
      [] OTHER -> Contains(request.requestUrl, currentRule)

\* currentRule.indexOf(m_domainExpression): the first character of [:?&/=]
indexOfDomainExpression(currentRule) ==
    LET hits == {i \in 0..(Len(currentRule) - 1) : currentRule[i + 1] \in m_domainExpression}
    IN IF hits = {} THEN -1 ELSE Min(hits)

domainAnchorMatches(rule, currentRule, request) ==
    ~rule.needsDomainCheck
    \/ ListContains(createSubdomainList(request.requestHost),
                    Left(currentRule, indexOfDomainExpression(currentRule)))

resolveDomainExceptions(url, ruleList) ==
    \E i \in 1..Len(ruleList) : Contains(url, ruleList[i])

\* mutant of thirdPartyBlocked: the first-party branch reads the options, not the
\* exceptions
thirdPartyBlocked_optionPolarity(rule, request, isBlocked) ==
    IF "ThirdPartyOption" \in rule.ruleOptions \/ "ThirdPartyOption" \in rule.ruleExceptions
    THEN IF request.baseHost = <<>>
            \/ ListContains(createSubdomainList(request.requestHost), request.baseHost)
         THEN "ThirdPartyOption" \in rule.ruleOptions
         ELSE IF rule.blockedDomains = <<>> /\ rule.allowedDomains = <<>>
         THEN "ThirdPartyOption" \in rule.ruleOptions
         ELSE isBlocked
    ELSE isBlocked

\* isBlocked after the third-party test
thirdPartyBlocked(rule, request, isBlocked) ==
    IF "ThirdPartyOption" \in rule.ruleOptions \/ "ThirdPartyOption" \in rule.ruleExceptions
    THEN IF request.baseHost = <<>>
            \/ ListContains(createSubdomainList(request.requestHost), request.baseHost)
         THEN "ThirdPartyOption" \in rule.ruleExceptions
         ELSE IF rule.blockedDomains = <<>> /\ rule.allowedDomains = <<>>
         THEN "ThirdPartyOption" \in rule.ruleOptions
         ELSE isBlocked
    ELSE isBlocked

\* isBlocked after the loop over m_resourceTypes; every entry only keeps or clears
\* isBlocked, so the order of the hash does not matter
resourceTypeBlocked(rule, request, isBlocked) ==
    IF rule.ruleOptions # NoOption \/ rule.ruleExceptions # NoOption
    THEN isBlocked
         /\ \A key \in DOMAIN m_resourceTypes :
              LET value == m_resourceTypes[key]
                  supportsException == value \notin {"WebSocketOption", "PopupOption"}
              IN (value \in rule.ruleOptions \/ (supportsException /\ value \in rule.ruleExceptions))
                 => IF request.resourceType = key THEN value \in rule.ruleOptions
                    ELSE IF supportsException THEN value \in rule.ruleExceptions
                    ELSE FALSE
    ELSE IF request.resourceType = "PopupType" THEN FALSE
    ELSE isBlocked

\* the result built from a rule that applies
ruleResult(rule) ==
    IF rule.isException
    THEN [isBlocked |-> FALSE, isException |-> TRUE, rule |-> rule.rule,
          comesticFiltersMode |->
              IF "ElementHideOption" \in rule.ruleOptions THEN "NoFilters"
              ELSE IF "GenericHideOption" \in rule.ruleOptions THEN "DomainOnlyFilters"
              ELSE "UnknownFilters"]
    ELSE [isBlocked |-> TRUE, isException |-> FALSE, rule |-> rule.rule,
          comesticFiltersMode |-> "UnknownFilters"]

\* isBlocked when the loop over the resource types is reached; FALSE also stands for
\* the early returns of the pattern, domain-anchor and blocked-domains tests
blockedBeforeResourceTypes(rule, currentRule, request) ==
    /\ patternMatches(rule, currentRule, request)
    /\ domainAnchorMatches(rule, currentRule, request)
    /\ rule.blockedDomains # <<>> => resolveDomainExceptions(request.baseHost, rule.blockedDomains)
    /\ thirdPartyBlocked(rule, request,
                         IF rule.allowedDomains # <<>>
                         THEN ~resolveDomainExceptions(request.baseHost, rule.allowedDomains)
                         ELSE TRUE)

checkRuleMatch(rule, currentRule, request) ==
    IF resourceTypeBlocked(rule, request, blockedBeforeResourceTypes(rule, currentRule, request))
    THEN ruleResult(rule)
    ELSE NoResult

(***************************************************************************)
(* The matcher.  Every operator returns the result together with           *)
(* `evaluated`, the history of the checkRuleMatch calls made so far, in    *)
(* call order.                                                             *)
(***************************************************************************)

RECURSIVE evaluateRulesFrom(_, _, _, _, _, _)
evaluateRulesFrom(rules, i, currentRule, request, result, evaluated) ==
    IF i > Len(rules) THEN [result |-> result, evaluated |-> evaluated]
    ELSE
        LET currentResult == checkRuleMatch(rules[i], currentRule, request)
            history == Append(evaluated, [rule |-> rules[i], currentRule |-> currentRule,
                                          result |-> currentResult])
        IN IF currentResult.isBlocked
           THEN evaluateRulesFrom(rules, i + 1, currentRule, request, currentResult, history)
           ELSE IF currentResult.isException
           THEN [result |-> currentResult, evaluated |-> history]
           ELSE evaluateRulesFrom(rules, i + 1, currentRule, request, result, history)

evaluateNodeRules(root, node, currentRule, request) ==
    evaluateRulesFrom(root[node].rules, 1, currentRule, request, NoResult, <<>>)

\* mutant of takeResult: an exception hit does not end the walk and is not kept
takeResult_exceptionIgnored(result, evaluated, current) ==
    [result |-> IF current.result.isBlocked THEN current.result ELSE result,
     evaluated |-> evaluated \o current.evaluated,
     returned |-> FALSE]

\* "if blocked, result = currentResult; else if exception, return currentResult"
\* returned = TRUE when the caller returns at once with result
takeResult(result, evaluated, current) ==
    [result |-> IF current.result.isBlocked \/ current.result.isException
                THEN current.result ELSE result,
     evaluated |-> evaluated \o current.evaluated,
     returned |-> ~current.result.isBlocked /\ current.result.isException]

isSeparatorPosition(treeChar) ==
    ~IsDigit(treeChar) /\ ~IsLetter(treeChar) /\ treeChar \notin m_separators

RECURSIVE checkUrlSubstring(_, _, _, _, _)
RECURSIVE urlLoop(_, _, _, _, _, _, _, _)
RECURSIVE childLoop(_, _, _, _, _, _, _, _, _)
RECURSIVE wildcardLoop(_, _, _, _, _, _, _, _)

\* the final evaluation once the slice is consumed
RECURSIVE separatorLoop(_, _, _, _, _, _, _)
separatorLoop(root, node, i, currentRule, request, result, evaluated) ==
    IF i > Len(root[node].children) THEN [result |-> result, evaluated |-> evaluated]
    ELSE IF root[node].children[i] = "^"
    THEN LET taken == takeResult(result, evaluated, evaluateNodeRules(root, node, currentRule, request))
         IN IF taken.returned THEN [result |-> taken.result, evaluated |-> taken.evaluated]
            ELSE separatorLoop(root, node, i + 1, currentRule, request, taken.result, taken.evaluated)
    ELSE separatorLoop(root, node, i + 1, currentRule, request, result, evaluated)

endOfUrl(root, node, currentRule, request, result, evaluated) ==
    LET taken == takeResult(result, evaluated, evaluateNodeRules(root, node, currentRule, request))
    IN IF taken.returned THEN [result |-> taken.result, evaluated |-> taken.evaluated]
       ELSE separatorLoop(root, node, 1, currentRule, request, taken.result, taken.evaluated)

\* for (k = 0; k < wildcardSubString.length(); ++k)
wildcardLoop(root, nextNode, wildcardSubString, k, currentRule, request, result, evaluated) ==
    IF k >= Len(wildcardSubString)
    THEN [result |-> result, evaluated |-> evaluated, returned |-> FALSE]
    ELSE
        LET taken == takeResult(result, evaluated,
                                checkUrlSubstring(root, nextNode,
                                                  Right(wildcardSubString, Len(wildcardSubString) - k),
                                                  currentRule \o Left(wildcardSubString, k), request))
        IN IF taken.returned THEN taken
           ELSE wildcardLoop(root, nextNode, wildcardSubString, k + 1, currentRule, request,
                             taken.result, taken.evaluated)

\* for (j = 0; j < node->children.count(); ++j) at URL position i
childLoop(root, node, subString, i, j, currentRule, request, result, evaluated) ==
    IF j > Len(root[node].children) THEN [result |-> result, evaluated |-> evaluated]
    ELSE
        LET treeChar == subString[i + 1]
            value == root[node].children[j]
            nextNode == Append(node, value)
            wild == IF value = "*"
                    THEN wildcardLoop(root, nextNode, Mid(subString, i), 0, currentRule, request,
                                      result, evaluated)
                    ELSE [result |-> result, evaluated |-> evaluated, returned |-> FALSE]
            sep == IF ~wild.returned /\ value = "^" /\ isSeparatorPosition(treeChar)
                   THEN takeResult(wild.result, wild.evaluated,
                                   checkUrlSubstring(root, nextNode, Mid(subString, i), currentRule, request))
                   ELSE wild
        IN IF sep.returned THEN [result |-> sep.result, evaluated |-> sep.evaluated]
           ELSE IF value = treeChar
           THEN urlLoop(root, nextNode, subString, i + 1, Append(currentRule, treeChar), request,
                        sep.result, sep.evaluated)
           ELSE childLoop(root, node, subString, i, j + 1, currentRule, request,
                          sep.result, sep.evaluated)

\* for (i = 0; i < subString.length(); ++i)
urlLoop(root, node, subString, i, currentRule, request, result, evaluated) ==
    IF i >= Len(subString) THEN endOfUrl(root, node, currentRule, request, result, evaluated)
    ELSE
        LET taken == takeResult(result, evaluated, evaluateNodeRules(root, node, currentRule, request))
        IN IF taken.returned THEN [result |-> taken.result, evaluated |-> taken.evaluated]
           ELSE childLoop(root, node, subString, i, 1, currentRule, request,
                          taken.result, taken.evaluated)

checkUrlSubstring(root, node, subString, currentRule, request) ==
    urlLoop(root, node, subString, 0, currentRule, request, NoResult, <<>>)

\* the loop of checkUrl over the start positions
RECURSIVE checkUrlFrom(_, _, _, _, _)
checkUrlFrom(root, request, i, result, evaluated) ==
    IF i >= Len(request.requestUrl) THEN [result |-> result, evaluated |-> evaluated]
    ELSE
        LET taken == takeResult(result, evaluated,
                                checkUrlSubstring(root, <<>>,
                                                  Right(request.requestUrl, Len(request.requestUrl) - i),
                                                  <<>>, request))
        IN IF taken.returned THEN [result |-> taken.result, evaluated |-> taken.evaluated]
           ELSE checkUrlFrom(root, request, i + 1, taken.result, taken.evaluated)

\* mutant of checkUrlLoaded: the walk starts at the first URL position only
checkUrlLoaded_firstPositionOnly(root, request) ==
    IF request.requestUrl = <<>> THEN [result |-> NoResult, evaluated |-> <<>>]
    ELSE checkUrlSubstring(root, <<>>, request.requestUrl, <<>>, request)

checkUrlLoaded(root, request) == checkUrlFrom(root, request, 0, NoResult, <<>>)


\* mutant of getCosmeticFiltersLoaded: the global selectors are returned whatever
\* isDomainOnly says
getCosmeticFiltersLoaded_alwaysGlobal(globalRules, domainRules, domainExceptions, domains, isDomainOnly) ==
    LET RECURSIVE collect(_, _)
        collect(list, i) ==
            IF i > Len(domains) THEN <<>>
            ELSE MultiHashValues(list, domains[i]) \o collect(list, i + 1)
    IN [rules |-> globalRules \o collect(domainRules, 1),
        exceptions |-> collect(domainExceptions, 1)]

\* getCosmeticFilters once the profile is loaded
getCosmeticFiltersLoaded(globalRules, domainRules, domainExceptions, domains, isDomainOnly) ==
    LET RECURSIVE collect(_, _)
        collect(list, i) ==
            IF i > Len(domains) THEN <<>>
            ELSE MultiHashValues(list, domains[i]) \o collect(list, i + 1)
    IN [rules |-> (IF ~isDomainOnly THEN globalRules ELSE <<>>) \o collect(domainRules, 1),
        exceptions |-> collect(domainExceptions, 1)]

(***************************************************************************)
(* The profile's life cycle.  The operators below take and return the      *)
(* profile as a record p of its members, together with the file at         *)
(* getPath() (p.file), the data-fetch jobs created so far (p.jobs) and two *)
(* histories of the call in progress: p.emitted, the number of             *)
(* profileModified() emissions, and p.parsed, the lines handed to          *)
(* parseRuleLine.                                                          *)
(***************************************************************************)

str_checksum == <<"!"," ","C","h","e","c","k","s","u","m",":">>

\* m_lastUpdate: -1 is an invalid QDateTime, 0 a date more than m_updateInterval days
\* ago, a positive number a date within the interval
IsValid(lastUpdate) == lastUpdate >= 0

\* QDateTime::currentDateTimeUtc(): later than every date stored before
currentDateTimeUtc(lastUpdate) == IF lastUpdate < 1 THEN 1 ELSE lastUpdate + 1

\* m_lastUpdate.daysTo(QDateTime::currentDateTimeUtc()) > m_updateInterval
isOutdated(lastUpdate) == lastUpdate = 0

raiseError(p, error) == [p EXCEPT !.m_error = error, !.emitted = @ + 1]

\* update(url) without the test of m_dataFetchJob
update_noInFlightTest(p, url, isOwnThread) ==
    IF ~isOwnThread THEN [p |-> p, returned |-> FALSE]
    ELSE LET updateUrl == IF url = "valid" THEN url ELSE p.m_updateUrl
         IN IF updateUrl # "valid"
            THEN [p |-> raiseError(p, "DownloadError"), returned |-> FALSE]
            ELSE [p |-> [p EXCEPT !.jobs = Append(@, "running"),
                                  !.m_dataFetchJob = Len(p.jobs) + 1,
                                  !.emitted = @ + 1],
                  returned |-> TRUE]

\* update(url): url and m_updateUrl are "empty", "invalid" or "valid"
update(p, url, isOwnThread) ==
    IF p.m_dataFetchJob # 0 \/ ~isOwnThread THEN [p |-> p, returned |-> FALSE]
    ELSE LET updateUrl == IF url = "valid" THEN url ELSE p.m_updateUrl
         IN IF updateUrl # "valid"
            THEN [p |-> raiseError(p, "DownloadError"), returned |-> FALSE]
            ELSE [p |-> [p EXCEPT !.jobs = Append(@, "running"),
                                  !.m_dataFetchJob = Len(p.jobs) + 1,
                                  !.emitted = @ + 1],
                  returned |-> TRUE]

\* the loop of loadHeader(path) from line pos + 1 of the file on
RECURSIVE scanHeaderLines(_, _, _, _)
scanHeaderLines(lines, pos, lineNumber, information) ==
    IF pos >= Len(lines) THEN information
    ELSE LET line == Trimmed(lines[pos + 1])
             scanned == IF information.isEmpty /\ line # <<>> /\ ~StartsWith(line, <<"!">>)
                        THEN [information EXCEPT !.isEmpty = FALSE]
                        ELSE information
         IN IF StartsWith(line, str_title)
            THEN scanHeaderLines(lines, pos + 1, lineNumber,
                                 [scanned EXCEPT !.title = Trimmed(Remove(line, str_title))])
            ELSE IF lineNumber > 50 THEN scanned
            ELSE scanHeaderLines(lines, pos + 1, lineNumber + 1, scanned)

\* loadHeader(path) as a function of the file at the path
loadHeaderInformation(file) ==
    LET information == [title |-> <<>>, error |-> "NoError", isEmpty |-> TRUE]
    IN IF file = [none |-> TRUE] THEN information
       ELSE IF ~file.readable THEN [information EXCEPT !.error = "ReadError"]
       ELSE LET header == IF file.lines = <<>> THEN <<>> ELSE file.lines[1]
            IN IF ~ContainsCaseInsensitive(header, str_adblock)
               THEN [information EXCEPT !.error = "ParseError"]
               ELSE scanHeaderLines(file.lines, 1, 1, information)

\* loadHeader()
loadHeader(p) ==
    LET information == loadHeaderInformation(p.file)
    IN IF information.error # "NoError" THEN raiseError(p, information.error)
       ELSE LET scanned == [p EXCEPT !.m_title = IF "HasCustomTitleFlag" \notin p.m_flags
                                                     /\ information.title # <<>>
                                                  THEN information.title ELSE @,
                                     !.m_isEmpty = information.isEmpty]
            IN IF scanned.m_dataFetchJob = 0 /\ scanned.m_updateInterval > 0
                  /\ (~IsValid(scanned.m_lastUpdate) \/ isOutdated(scanned.m_lastUpdate))
               THEN update(scanned, "invalid", TRUE).p
               ELSE scanned

\* clear() without the reset of the loaded flag
clear_keepsLoadedFlag(p) ==
    IF ~p.m_wasLoaded THEN p
    ELSE [p EXCEPT !.rootTornDown = IF p.m_root # [none |-> TRUE] THEN TRUE ELSE @,
                   !.m_cosmeticFiltersRules = <<>>,
                   !.m_cosmeticFiltersDomainExceptions = <<>>,
                   !.m_cosmeticFiltersDomainRules = <<>>]

\* clear(): the root is handed to deleteNode on another thread, m_root keeps pointing at it
clear(p) ==
    IF ~p.m_wasLoaded THEN p
    ELSE [p EXCEPT !.rootTornDown = IF p.m_root # [none |-> TRUE] THEN TRUE ELSE @,
                   !.m_cosmeticFiltersRules = <<>>,
                   !.m_cosmeticFiltersDomainExceptions = <<>>,
                   !.m_cosmeticFiltersDomainRules = <<>>,
                   !.m_wasLoaded = FALSE]

\* while (!stream.atEnd()) parseRuleLine(stream.readLine())
RECURSIVE parseRuleLines(_, _, _)
parseRuleLines(p, lines, i) ==
    IF i > Len(lines) THEN p
    ELSE parseRuleLines([parseRuleLine(p, lines[i], p.cosmeticFiltersMode, p.wildcardsEnabled)
                            EXCEPT !.parsed = Append(@, lines[i])],
                        lines, i + 1)

\* loadRules(); a file that cannot be opened gives a stream that is at its end
loadRules(p) ==
    LET cleared == [p EXCEPT !.m_error = "NoError"]
    IN IF cleared.m_isEmpty /\ cleared.m_updateUrl # "empty"
       THEN [p |-> update(cleared, "invalid", TRUE).p, returned |-> FALSE]
       ELSE LET lines == IF cleared.file = [none |-> TRUE] THEN <<>>
                         ELSE IF ~cleared.file.readable THEN <<>>
                         ELSE IF cleared.file.lines = <<>> THEN <<>>
                         ELSE Tail(cleared.file.lines)
                begun == [cleared EXCEPT !.m_wasLoaded = TRUE, !.m_root = NewRoot,
                                         !.rootTornDown = FALSE]
            IN [p |-> parseRuleLines(begun, lines, 1), returned |-> TRUE]

\* checkUrl(): walked tells whether the trie was walked, and walkedTornDown whether
\* the root walked was one that clear() had handed to deleteNode
checkUrl(p, request) ==
    LET loaded == IF ~p.m_wasLoaded THEN loadRules(p) ELSE [p |-> p, returned |-> TRUE]
    IN IF ~loaded.returned
       THEN [p |-> loaded.p, result |-> NoResult, walked |-> FALSE, walkedTornDown |-> FALSE]
       ELSE [p |-> loaded.p, result |-> checkUrlLoaded(loaded.p.m_root, request).result,
             walked |-> TRUE, walkedTornDown |-> loaded.p.rootTornDown]

\* getCosmeticFilters()
getCosmeticFilters(p, domains, isDomainOnly) ==
    LET loaded == IF ~p.m_wasLoaded THEN loadRules(p).p ELSE p
    IN [p |-> loaded,
        result |-> getCosmeticFiltersLoaded(loaded.m_cosmeticFiltersRules,
                                            loaded.m_cosmeticFiltersDomainRules,
                                            loaded.m_cosmeticFiltersDomainExceptions,
                                            domains, isDomainOnly)]

\* remove(); isRemoved is what QFile::remove returns
remove(p, isRemoved) ==
    LET released == IF p.m_dataFetchJob # 0
                    THEN [p EXCEPT !.jobs[p.m_dataFetchJob] = "cancelled", !.m_dataFetchJob = 0]
                    ELSE p
    IN IF released.file # [none |-> TRUE]
       THEN [p |-> IF isRemoved THEN [released EXCEPT !.file = [none |-> TRUE]] ELSE released,
             returned |-> isRemoved]
       ELSE [p |-> released, returned |-> TRUE]

\* the lines of a QByteArray: the text between the '\n' characters
JoinLines(lines) ==
    IF lines = <<>> THEN <<>>
    ELSE LET F[i \in 1..Len(lines)] ==
                 IF i = 1 THEN lines[1] ELSE F[i - 1] \o <<"\n">> \o lines[i]
         IN F[Len(lines)]

\* QCryptographicHash::hash(data, Md5).toBase64().remove(22, 2): a digest that
\* differs for different data
Md5Base64(data) == <<"=">> \o data

\* the loop of handleJobFinished over the lines after the header: the first
\* "! Checksum:" line with a value is captured, the other non-empty lines are kept
RECURSIVE readBody(_, _, _, _)
readBody(lines, i, data, checksum) ==
    IF i > Len(lines) THEN [data |-> data, checksum |-> checksum]
    ELSE LET line == lines[i]
         IN IF line = <<>> THEN readBody(lines, i + 1, data, checksum)
            ELSE IF checksum = <<>> /\ StartsWith(line, str_checksum)
            THEN readBody(lines, i + 1, data, Trimmed(Mid(line, 11)))
            ELSE readBody(lines, i + 1, Append(data, line), checksum)

\* handleJobFinished(isSuccess): body is what m_dataFetchJob->getData() holds, canOpen
\* and canCommit what QSaveFile::open and QSaveFile::commit return
handleJobFinished(p, isSuccess, body, canOpen, canCommit) ==
    IF p.m_dataFetchJob = 0 THEN [p |-> p, outcome |-> "NoJob"]
    ELSE
        LET released == [p EXCEPT !.jobs[p.m_dataFetchJob] = "released", !.m_dataFetchJob = 0]
            header == IF body = <<>> THEN <<>> ELSE body[1]
            read == readBody(body, 2, <<header>>, <<>>)
        IN IF ~isSuccess
           THEN [p |-> raiseError(released, "DownloadError"), outcome |-> "DownloadFailure"]
           ELSE IF ~Contains(header, str_adblock)
           THEN [p |-> raiseError(released, "ParseError"), outcome |-> "InvalidHeader"]
           ELSE IF read.checksum # <<>> /\ Md5Base64(JoinLines(read.data)) # read.checksum
           THEN [p |-> raiseError(released, "ChecksumError"), outcome |-> "ChecksumMismatch"]
           ELSE IF ~canOpen
           THEN [p |-> raiseError(released, "DownloadError"), outcome |-> "OpenFailure"]
           ELSE
               LET written == [released EXCEPT
                                   !.file = IF canCommit
                                            THEN [readable |-> TRUE, lines |-> read.data]
                                            ELSE @,
                                   !.m_lastUpdate = currentDateTimeUtc(@)]
                   scanned == loadHeader(clear(written))
                   reloaded == IF scanned.m_wasLoaded THEN loadRules(scanned).p ELSE scanned
               IN [p |-> [reloaded EXCEPT !.emitted = @ + 1],
                   outcome |-> IF canCommit THEN "Written" ELSE "CommitFailure"]

(***************************************************************************)
(* Bounds and input universes                                              *)
(***************************************************************************)

\* lines read from the stream by one loadRules in the network-rule specifications
MaxRules == 2

\* lines read from the stream in the cosmetic specification
MaxCosmeticLines == 3

\* length of the pattern texts of the wildcard-stripping specification
MaxPatternLen == 3

\* the network rules of the walk specification
RuleLines ==
    {<<"a">>,
     <<"b">>,
     <<"*">>,
     <<"a", "^", "b">>,
     <<"a", "^">>,
     <<"a", "*", "b">>,
     <<"|", "a">>,
     <<"|", "|", "a">>,
     <<"@", "@", "a", "/", "b">>,
     <<"a", "$", "p", "o", "p", "u", "p">>}

\* the network rules of the rule-evaluation specification
OptionLines ==
    {<<"a">>,
     <<"|", "|", "c", ".", "t", "^", "$", "t", "h", "i", "r", "d", "-", "p", "a", "r", "t", "y">>,
     <<"a", "$", "t", "h", "i", "r", "d", "-", "p", "a", "r", "t", "y">>,
     <<"a", "$", "~", "t", "h", "i", "r", "d", "-", "p", "a", "r", "t", "y">>,
     <<"a", "$", "s", "c", "r", "i", "p", "t">>,
     <<"a", "$", "s", "c", "r", "i", "p", "t", ",", "i", "m", "a", "g", "e">>,
     <<"a", "$", "~", "s", "c", "r", "i", "p", "t">>,
     <<"a", "$", "p", "o", "p", "u", "p">>,
     <<"@", "@", "a", "$", "e", "l", "e", "m", "h", "i", "d", "e">>,
     <<"a", "$", "d", "o", "m", "a", "i", "n", "=", "s", ".", "t">>}

CosmeticLines ==
    {<<"#", "#", "x">>,
     <<"#", "#", "#", "x">>,
     <<"d", "#", "#", "x">>,
     <<"d", ",", "e", "#", "#", "y">>,
     <<"d", "#", "@", "#", "x">>,
     <<"e", "#", "@", "#", "y">>,
     <<"!", "c">>,
     <<"a">>}

DomainLists == {<<>>, <<<<"d">>>>, <<<<"e">>>>, <<<<"d">>, <<"e">>>>, <<<<"d">>, <<"d">>>>, <<<<"f">>>>}

CosmeticFiltersModes == {"NoFilters", "DomainOnlyFilters", "AllFilters"}

Urls ==
    {[requestUrl |-> <<"a", "/", "b">>, requestHost |-> <<"a">>],
     [requestUrl |-> <<"a", "?", "b">>, requestHost |-> <<"a">>],
     [requestUrl |-> <<"a", "=", "b">>, requestHost |-> <<"a">>],
     [requestUrl |-> <<"a", "1", "b">>, requestHost |-> <<"a", "1", "b">>],
     [requestUrl |-> <<"a", "a", "b">>, requestHost |-> <<"a", "a", "b">>],
     [requestUrl |-> <<"b", "a">>, requestHost |-> <<"b", "a">>],
     [requestUrl |-> <<>>, requestHost |-> <<>>],
     [requestUrl |-> <<"c", ".", "t", "/", "a">>, requestHost |-> <<"c", ".", "t">>]}

BaseHosts == {<<>>, <<"a">>, <<"c", ".", "t">>, <<"t">>, <<"s", ".", "t">>}

ResourceTypes == {"ScriptType", "ImageType", "PopupType", "MainFrameType"}

Request(u, baseHost, resourceType) ==
    [requestUrl |-> u.requestUrl, requestHost |-> u.requestHost, baseHost |-> baseHost,
     resourceType |-> resourceType]

\* the requests of the walk specification
Requests == {Request(u, <<>>, t) : u \in Urls, t \in {"ScriptType", "PopupType"}}

\* the requests of the rule-evaluation specification
OptionUrls ==
    {[requestUrl |-> <<"a", "/", "b">>, requestHost |-> <<"a">>],
     [requestUrl |-> <<"c", ".", "t", "/", "a">>, requestHost |-> <<"c", ".", "t">>]}

OptionRequests == {Request(u, b, t) : u \in OptionUrls, b \in BaseHosts, t \in ResourceTypes}

\* lines after the header line in the files of the header-scan specification
MaxBodyLines == 54

\* if (lineNumber > 50)
HeaderLineLimit == 50

HeaderLines ==
    {<<"[", "A", "d", "b", "l", "o", "c", "k", "]">>,
     <<"[", "A", "D", "B", "L", "O", "C", "K", "]">>,
     <<";", " ", "n", "o">>}

TitleLine == <<"!", " ", "T", "i", "t", "l", "e", ":", " ", "T">>

FillerLines == {<<"a">>, <<"!", "c">>}

\* where the "! Title: " lines stand among the lines after the header
TitlePositions == {{}, {1}, {2, 3}, {1, 51}}

HeaderFile(headerLine, n, titleAt, filler) ==
    <<headerLine>> \o [k \in 1..n |-> IF k \in titleAt THEN TitleLine ELSE filler]

HeaderFiles ==
    {HeaderFile(h, n, t, f) : h \in HeaderLines, n \in 0..MaxBodyLines,
                              t \in TitlePositions, f \in FillerLines}

PatternChars == {"a", "*", "^", "|"}

Patterns == UNION {[1..n -> PatternChars] : n \in 0..MaxPatternLen}

Wrap(p) == <<"*">> \o p \o <<"*">>

\* option tokens after the '$' of a line of the option-list specification
MaxOptions == 2

OptionTokens ==
    LET names == {str_script, str_image, str_popup, str_third_party, str_elemhide}
    IN names \cup {<<"~">> \o name : name \in names}

\* the token lists: every order, repetitions included
OptionLists == UNION {[1..n -> OptionTokens] : n \in 0..MaxOptions}

\* the tokens separated by ','
JoinOptions(options) ==
    IF options = <<>> THEN <<>>
    ELSE LET F[i \in 1..Len(options)] ==
                 IF i = 1 THEN options[1] ELSE F[i - 1] \o <<",">> \o options[i]
         IN F[Len(options)]

\* the blocking rule and the exception rule with pattern a and each token list
OptionListLines ==
    {prefix \o <<"a", "$">> \o JoinOptions(options) :
        prefix \in {<<>>, <<"@", "@">>}, options \in OptionLists}

\* the domain=~s.t option
str_not_s_t == str_domain \o <<"=", "~", "s", ".", "t">>

\* the network rules of the domain-scope specification
DomainLines ==
    {<<"a", "$">> \o str_not_s_t,
     <<"a", "$">> \o str_not_s_t \o <<",">> \o str_third_party,
     <<"a", "$">> \o str_not_s_t \o <<",", "~">> \o str_third_party,
     <<"a", "$">> \o str_not_s_t \o <<",">> \o str_script,
     <<"a", "$">> \o str_domain \o <<"=", "t", "|", "~", "s", ".", "t">>,
     <<"@", "@", "a", "$">> \o str_not_s_t,
     <<"a">>}

\* the requests of the domain-scope specification: a page of s.t, x.s.t, t or a, or
\* no page, asking for a URL of s.t or of a
DomainRequests ==
    {Request(u, b, "ScriptType") :
        u \in {[requestUrl |-> <<"s", ".", "t", "/", "a">>, requestHost |-> <<"s", ".", "t">>],
               [requestUrl |-> <<"a", "/", "b">>, requestHost |-> <<"a">>]},
        b \in {<<>>, <<"s", ".", "t">>, <<"x", ".", "s", ".", "t">>, <<"t">>, <<"a">>}}

\* the network rules of the wildcard-descent specification: a** keeps one '*' after
\* the stripping, so its rule is stored at the '*' child of the node a
StarLines ==
    {<<"a", "*", "*">>,
     <<"b", "a", "*", "*">>,
     <<"a", "*", "b">>,
     <<"a">>}

\* the requests of the wildcard-descent specification
StarRequests ==
    {Request([requestUrl |-> u, requestHost |-> u], <<>>, "ScriptType") :
        u \in {<<"a">>, <<"a", "b">>, <<"a", "b", "b">>, <<"b", "a">>, <<"b">>}}

\* the lines of the cosmetic-exception specification: exception lines with a
\* class, an element and an id selector, a global selector and a network rule
ExceptionLines ==
    {<<"d", "#", "@", "#", ".", "x">>,
     <<"d", ",", "e", "#", "@", "#", "y">>,
     <<"d", "#", "@", "#", "#", "x">>,
     <<"#", "#", "x">>,
     <<"a">>}

\* the network rules of the start-anchor specification
AnchorLines ==
    {<<"|", "a", "b", "^">>,
     <<"|", "a", "b">>,
     <<"|", "b", "^", "a">>,
     <<"a", "b">>}

\* the requests of the start-anchor specification
AnchorRequests ==
    {Request([requestUrl |-> u, requestHost |-> <<"a", "b">>], <<>>, "ScriptType") :
        u \in {<<"a", "b", "x", "a", "b", "/">>,
               <<"a", "b", "/">>,
               <<"x", "a", "b", "/">>,
               <<"a", "b">>,
               <<"a", "b", "/", "a">>}}

\* DataFetchJob objects created in one behaviour of the life-cycle specification
MaxJobs == 2

\* file.write(QStringLiteral("[AdBlock Plus 2.0]\n").toUtf8())
str_created_header ==
    <<"[", "A", "d", "B", "l", "o", "c", "k", " ", "P", "l", "u", "s", " ", "2", ".", "0", "]">>

str_adblock_header == <<"[", "A", "d", "b", "l", "o", "c", "k", "]">>

str_no_header == <<";", " ", "n", "o">>

\* the files found at getPath() when the profile is constructed: none, a
\* subscription with a rule, the same unreadable, one without rules, one without
\* the header line
ProfileFiles ==
    {[none |-> TRUE],
     [readable |-> TRUE, lines |-> <<str_adblock_header, <<"a">>>>],
     [readable |-> FALSE, lines |-> <<str_adblock_header, <<"a">>>>],
     [readable |-> TRUE, lines |-> <<str_adblock_header, TitleLine>>],
     [readable |-> TRUE, lines |-> <<str_no_header, <<"a">>>>]}

\* a body that declares the checksum of its own data
WithChecksum(header, lines) ==
    <<header, str_checksum \o <<" ">> \o Md5Base64(JoinLines(<<header>> \o lines))>> \o lines

\* the bodies a fetch delivers
Bodies ==
    {<<str_adblock_header, <<"b">>>>,
     <<str_created_header, <<"b">>>>,
     <<str_no_header, <<"b">>>>,
     WithChecksum(str_adblock_header, <<<<"b">>>>),
     <<str_adblock_header, str_checksum \o <<" ", "x">>, <<>>, <<"b">>>>}

\* (m_updateInterval, m_lastUpdate) passed to the constructor: no automatic update
\* and no date, or an interval of 7 days with an outdated date
UpdateSchedules == {<<0, -1>>, <<7, 0>>}

\* (url, isOwnThread) of a call of update
UpdateCalls == {<<"invalid", TRUE>>, <<"valid", TRUE>>, <<"valid", FALSE>>}

ProfileRequests ==
    {Request([requestUrl |-> <<"a", "/", "b">>, requestHost |-> <<"a">>], <<>>, "ScriptType")}

\* (isSuccess, body, canOpen, canCommit) of a job completion
Completions ==
    {<<FALSE, <<>>, TRUE, TRUE>>}
    \cup {<<TRUE, body, TRUE, TRUE>> : body \in Bodies}
    \cup {<<TRUE, <<str_adblock_header, <<"b">>>>, canOpen, FALSE>> : canOpen \in BOOLEAN}

(***************************************************************************)
(* State                                                                   *)
(***************************************************************************)

VARIABLES
    m_root,                             \* the trie
    m_cosmeticFiltersRules,             \* global selectors
    m_cosmeticFiltersDomainRules,       \* domain -> selector
    m_cosmeticFiltersDomainExceptions,  \* domain -> selector
    m_wasLoaded,
    cosmeticFiltersMode,                \* ContentFiltersManager::getCosmeticFiltersMode()
    wildcardsEnabled,                   \* ContentFiltersManager::areWildcardsEnabled()
    pc,                                 \* "loadRules" while the stream is read, then "loaded"
    linesRead,                          \* lines read from the stream so far
    parsedLines,                        \* history: the lines handed to parseRuleLine
    pattern,                            \* the pattern text of the wildcard-stripping specification
    checkResult,                        \* what the last checkUrl returned, and for which request
    cosmeticResult,                     \* what the last getCosmeticFilters returned
    header,                             \* the header scan loadHeader(path)
    m_dataFetchJob,                     \* 0 (nullptr) or the index in jobs of the job owned
    m_error,
    m_isEmpty,
    m_title,
    m_lastUpdate,
    m_updateUrl,
    m_updateInterval,
    m_flags,
    fileAtPath,                         \* the file at getPath(): None or its lines
    jobs,                               \* the state of every DataFetchJob created so far
    rootTornDown,                       \* m_root points at a root handed to deleteNode
    lastCall,                           \* history: the last call and what it did
    callStack                           \* the frames of checkUrl and checkUrlSubstring in progress

vars == <<m_root, m_cosmeticFiltersRules, m_cosmeticFiltersDomainRules,
          m_cosmeticFiltersDomainExceptions, m_wasLoaded, cosmeticFiltersMode,
          wildcardsEnabled, pc, linesRead, parsedLines, pattern, checkResult,
          cosmeticResult, header, m_dataFetchJob, m_error, m_isEmpty, m_title,
          m_lastUpdate, m_updateUrl, m_updateInterval, m_flags, fileAtPath, jobs, rootTornDown,
          lastCall, callStack>>

lifeCycle == <<m_dataFetchJob, m_error, m_isEmpty, m_title, m_lastUpdate, m_updateUrl,
               m_updateInterval, m_flags, fileAtPath, jobs, rootTornDown, lastCall>>

tables == <<m_root, m_cosmeticFiltersRules, m_cosmeticFiltersDomainRules,
            m_cosmeticFiltersDomainExceptions>>

None == [none |-> TRUE]

HeaderIdle == [pc |-> "idle"]

\* the members that the update machinery uses, in a profile without update URL
\* whose file holds rules: no job, no error, nothing called yet
NoUpdate ==
    /\ m_dataFetchJob = 0
    /\ m_error = "NoError"
    /\ m_isEmpty = FALSE
    /\ m_title = <<>>
    /\ m_lastUpdate = -1
    /\ m_updateUrl = "empty"
    /\ m_updateInterval = 0
    /\ m_flags = {}
    /\ fileAtPath = None
    /\ jobs = <<>>
    /\ rootTornDown = FALSE
    /\ lastCall = None

\* loadRules at the point where the fresh root has been allocated and the header
\* line skipped: the tables are empty and the loaded flag is set
LoadRulesBegun ==
    /\ m_root = NewRoot
    /\ m_cosmeticFiltersRules = <<>>
    /\ m_cosmeticFiltersDomainRules = <<>>
    /\ m_cosmeticFiltersDomainExceptions = <<>>
    /\ m_wasLoaded = TRUE
    /\ pc = "loadRules"
    /\ linesRead = 0
    /\ parsedLines = {}
    /\ checkResult = None
    /\ cosmeticResult = None
    /\ callStack = <<>>
    /\ NoUpdate

Init ==
    /\ LoadRulesBegun
    /\ cosmeticFiltersMode = "AllFilters"
    /\ wildcardsEnabled \in BOOLEAN
    /\ pattern = <<>>
    /\ header = HeaderIdle

InitCosmetic ==
    /\ LoadRulesBegun
    /\ cosmeticFiltersMode \in CosmeticFiltersModes
    /\ wildcardsEnabled = TRUE
    /\ pattern = <<>>
    /\ header = HeaderIdle

InitWildcard ==
    /\ LoadRulesBegun
    /\ cosmeticFiltersMode = "AllFilters"
    /\ wildcardsEnabled \in BOOLEAN
    /\ pattern \in Patterns
    /\ header = HeaderIdle

InitOptionList ==
    /\ LoadRulesBegun
    /\ cosmeticFiltersMode = "AllFilters"
    /\ wildcardsEnabled = TRUE
    /\ pattern \in OptionListLines
    /\ header = HeaderIdle

\* HeaderInformation as default-constructed
NewHeaderInformation == [title |-> <<>>, error |-> "NoError", isEmpty |-> TRUE]

\* loadHeader(path) about to run on a path: missing, unreadable, or holding a file
HeaderStart(exists, readable, file) ==
    [pc |-> "start", exists |-> exists, readable |-> readable, file |-> file, pos |-> 0,
     lineNumber |-> 0, information |-> NewHeaderInformation]

InitHeader ==
    /\ m_root = NewRoot
    /\ m_cosmeticFiltersRules = <<>>
    /\ m_cosmeticFiltersDomainRules = <<>>
    /\ m_cosmeticFiltersDomainExceptions = <<>>
    /\ m_wasLoaded = FALSE
    /\ pc = "loadHeader"
    /\ linesRead = 0
    /\ parsedLines = {}
    /\ checkResult = None
    /\ cosmeticResult = None
    /\ callStack = <<>>
    /\ cosmeticFiltersMode = "AllFilters"
    /\ wildcardsEnabled = TRUE
    /\ pattern = <<>>
    /\ NoUpdate
    /\ \/ header = HeaderStart(FALSE, FALSE, <<>>)
       \/ \E file \in HeaderFiles, readable \in BOOLEAN : header = HeaderStart(TRUE, readable, file)

\* the profile as the record the life-cycle operators work on
Profile ==
    [m_root |-> m_root,
     m_cosmeticFiltersRules |-> m_cosmeticFiltersRules,
     m_cosmeticFiltersDomainRules |-> m_cosmeticFiltersDomainRules,
     m_cosmeticFiltersDomainExceptions |-> m_cosmeticFiltersDomainExceptions,
     m_wasLoaded |-> m_wasLoaded,
     cosmeticFiltersMode |-> cosmeticFiltersMode,
     wildcardsEnabled |-> wildcardsEnabled,
     m_dataFetchJob |-> m_dataFetchJob,
     m_error |-> m_error,
     m_isEmpty |-> m_isEmpty,
     m_title |-> m_title,
     m_lastUpdate |-> m_lastUpdate,
     m_updateUrl |-> m_updateUrl,
     m_updateInterval |-> m_updateInterval,
     m_flags |-> m_flags,
     file |-> fileAtPath,
     jobs |-> jobs,
     rootTornDown |-> rootTornDown,
     emitted |-> 0,
     parsed |-> <<>>]

\* the member initialisers of the constructor
Constructed(updateUrl, lastUpdate, updateInterval, flags, found) ==
    [m_root |-> None,
     m_cosmeticFiltersRules |-> <<>>,
     m_cosmeticFiltersDomainRules |-> <<>>,
     m_cosmeticFiltersDomainExceptions |-> <<>>,
     m_wasLoaded |-> FALSE,
     cosmeticFiltersMode |-> "AllFilters",
     wildcardsEnabled |-> TRUE,
     m_dataFetchJob |-> 0,
     m_error |-> "NoError",
     m_isEmpty |-> TRUE,
     m_title |-> <<>>,
     m_lastUpdate |-> lastUpdate,
     m_updateUrl |-> updateUrl,
     m_updateInterval |-> updateInterval,
     m_flags |-> flags,
     file |-> found,
     jobs |-> <<>>,
     rootTornDown |-> FALSE,
     emitted |-> 0,
     parsed |-> <<>>]

\* the profile is p
ProfileIs(p) ==
    /\ m_root = p.m_root
    /\ m_cosmeticFiltersRules = p.m_cosmeticFiltersRules
    /\ m_cosmeticFiltersDomainRules = p.m_cosmeticFiltersDomainRules
    /\ m_cosmeticFiltersDomainExceptions = p.m_cosmeticFiltersDomainExceptions
    /\ m_wasLoaded = p.m_wasLoaded
    /\ cosmeticFiltersMode = p.cosmeticFiltersMode
    /\ wildcardsEnabled = p.wildcardsEnabled
    /\ m_dataFetchJob = p.m_dataFetchJob
    /\ m_error = p.m_error
    /\ m_isEmpty = p.m_isEmpty
    /\ m_title = p.m_title
    /\ m_lastUpdate = p.m_lastUpdate
    /\ m_updateUrl = p.m_updateUrl
    /\ m_updateInterval = p.m_updateInterval
    /\ m_flags = p.m_flags
    /\ fileAtPath = p.file
    /\ jobs = p.jobs
    /\ rootTornDown = p.rootTornDown

\* the constructor has run: the members are initialised and loadHeader() was called
InitProfile ==
    /\ \E updateUrl \in {"empty", "valid"}, schedule \in UpdateSchedules, found \in ProfileFiles :
           ProfileIs(loadHeader(Constructed(updateUrl, schedule[2], schedule[1], {}, found)))
    /\ pc = "constructed"
    /\ linesRead = 0
    /\ parsedLines = {}
    /\ pattern = <<>>
    /\ checkResult = None
    /\ cosmeticResult = None
    /\ callStack = <<>>
    /\ header = HeaderIdle
    /\ lastCall = None

(***************************************************************************)
(* Actions                                                                 *)
(***************************************************************************)

notHeader == <<lifeCycle, tables, m_wasLoaded, cosmeticFiltersMode, wildcardsEnabled, pc, linesRead,
               parsedLines, pattern, checkResult, cosmeticResult, callStack>>

\* loadHeader(path) up to the loop: existence, open, and the test of the first line
LoadHeaderOpen ==
    /\ header.pc = "start"
    /\ IF ~header.exists THEN header' = [header EXCEPT !.pc = "done"]
       ELSE IF ~header.readable
       THEN header' = [header EXCEPT !.pc = "done", !.information.error = "ReadError"]
       ELSE LET first == IF Len(header.file) >= 1 THEN header.file[1] ELSE <<>>
                read == IF Len(header.file) >= 1 THEN 1 ELSE 0
            IN IF ~ContainsCaseInsensitive(first, str_adblock)
               THEN header' = [header EXCEPT !.pc = "done", !.pos = read,
                                              !.information.error = "ParseError"]
               ELSE header' = [header EXCEPT !.pc = "loop", !.pos = read, !.lineNumber = 1]
    /\ UNCHANGED notHeader

\* one iteration of while (!stream.atEnd())
LoadHeaderReadLine ==
    /\ header.pc = "loop"
    /\ header.pos < Len(header.file)
    /\ LET line == Trimmed(header.file[header.pos + 1])
           isEmpty == header.information.isEmpty /\ ~(line # <<>> /\ ~StartsWith(line, <<"!">>))
       IN IF StartsWith(line, str_title)
          THEN header' = [header EXCEPT !.pos = @ + 1, !.information.isEmpty = isEmpty,
                                         !.information.title = Trimmed(Remove(line, str_title))]
          ELSE IF header.lineNumber > HeaderLineLimit
          THEN header' = [header EXCEPT !.pos = @ + 1, !.information.isEmpty = isEmpty,
                                         !.pc = "done"]
          ELSE header' = [header EXCEPT !.pos = @ + 1, !.information.isEmpty = isEmpty,
                                         !.lineNumber = @ + 1]
    /\ UNCHANGED notHeader

\* stream.atEnd(): the file is closed and the information returned
LoadHeaderAtEnd ==
    /\ header.pc = "loop"
    /\ header.pos = Len(header.file)
    /\ header' = [header EXCEPT !.pc = "done"]
    /\ UNCHANGED notHeader

\* one iteration of the loop of loadRules: parseRuleLine(stream.readLine())
ParseRuleLine(line, limit) ==
    /\ pc = "loadRules"
    /\ linesRead < limit
    /\ LET st == parseRuleLine([m_root |-> m_root,
                                m_cosmeticFiltersRules |-> m_cosmeticFiltersRules,
                                m_cosmeticFiltersDomainRules |-> m_cosmeticFiltersDomainRules,
                                m_cosmeticFiltersDomainExceptions |-> m_cosmeticFiltersDomainExceptions],
                               line, cosmeticFiltersMode, wildcardsEnabled)
       IN /\ m_root' = st.m_root
          /\ m_cosmeticFiltersRules' = st.m_cosmeticFiltersRules
          /\ m_cosmeticFiltersDomainRules' = st.m_cosmeticFiltersDomainRules
          /\ m_cosmeticFiltersDomainExceptions' = st.m_cosmeticFiltersDomainExceptions
    /\ linesRead' = linesRead + 1
    /\ parsedLines' = parsedLines \cup {line}
    /\ UNCHANGED <<m_wasLoaded, cosmeticFiltersMode, wildcardsEnabled, pc, pattern,
                   checkResult, cosmeticResult, header, lifeCycle, callStack>>

\* stream.atEnd(): loadRules closes the file and returns true
LoadRulesDone ==
    /\ pc = "loadRules"
    /\ pc' = "loaded"
    /\ UNCHANGED <<tables, m_wasLoaded, cosmeticFiltersMode, wildcardsEnabled, linesRead,
                   parsedLines, pattern, checkResult, cosmeticResult, header, lifeCycle,
                   callStack>>

\* checkUrl on the loaded profile
CheckUrl(request) ==
    /\ pc = "loaded"
    /\ m_wasLoaded
    /\ checkResult = None
    /\ cosmeticResult = None
    /\ LET r == checkUrlLoaded(m_root, request)
       IN checkResult' = [request |-> request, result |-> r.result, evaluated |-> r.evaluated]
    /\ UNCHANGED <<tables, m_wasLoaded, cosmeticFiltersMode, wildcardsEnabled, pc, linesRead,
                   parsedLines, pattern, cosmeticResult, header, lifeCycle, callStack>>

\* getCosmeticFilters on the loaded profile
GetCosmeticFilters(domains, isDomainOnly) ==
    /\ pc = "loaded"
    /\ m_wasLoaded
    /\ checkResult = None
    /\ cosmeticResult = None
    /\ LET r == getCosmeticFiltersLoaded(m_cosmeticFiltersRules, m_cosmeticFiltersDomainRules,
                                         m_cosmeticFiltersDomainExceptions, domains, isDomainOnly)
       IN cosmeticResult' = [domains |-> domains, isDomainOnly |-> isDomainOnly,
                             rules |-> r.rules, exceptions |-> r.exceptions]
    /\ UNCHANGED <<tables, m_wasLoaded, cosmeticFiltersMode, wildcardsEnabled, pc, linesRead,
                   parsedLines, pattern, checkResult, header, lifeCycle, callStack>>

\* the members and the file after a call that leaves the profile as p
Becomes(p) ==
    /\ Len(p.jobs) <= MaxJobs
    /\ m_root' = p.m_root
    /\ m_cosmeticFiltersRules' = p.m_cosmeticFiltersRules
    /\ m_cosmeticFiltersDomainRules' = p.m_cosmeticFiltersDomainRules
    /\ m_cosmeticFiltersDomainExceptions' = p.m_cosmeticFiltersDomainExceptions
    /\ m_wasLoaded' = p.m_wasLoaded
    /\ m_dataFetchJob' = p.m_dataFetchJob
    /\ m_error' = p.m_error
    /\ m_isEmpty' = p.m_isEmpty
    /\ m_title' = p.m_title
    /\ m_lastUpdate' = p.m_lastUpdate
    /\ fileAtPath' = p.file
    /\ rootTornDown' = p.rootTornDown
    /\ UNCHANGED <<cosmeticFiltersMode, wildcardsEnabled, m_updateUrl, m_updateInterval,
                   m_flags, pc, linesRead, parsedLines, pattern, checkResult, cosmeticResult,
                   header, callStack>>

\* update(url) called from the owning thread or from another one
ProfileUpdate(url, isOwnThread) ==
    /\ pc = "constructed"
    /\ \E call \in {update(Profile, url, isOwnThread)} :
          /\ Becomes(call.p)
          /\ jobs' = call.p.jobs
          /\ lastCall' = [op |-> "update", wasUpdating |-> m_dataFetchJob # 0,
                          returned |-> call.returned, emitted |-> call.p.emitted]

\* remove()
ProfileRemove(isRemoved) ==
    /\ pc = "constructed"
    /\ \E call \in {remove(Profile, isRemoved)} :
          /\ Becomes(call.p)
          /\ jobs' = call.p.jobs
          /\ lastCall' = [op |-> "remove"]

\* clear()
ProfileClear ==
    /\ pc = "constructed"
    /\ \E p \in {clear(Profile)} :
          /\ Becomes(p)
          /\ jobs' = p.jobs
          /\ lastCall' = [op |-> "clear"]

\* loadHeader()
ProfileLoadHeader ==
    /\ pc = "constructed"
    /\ \E p \in {loadHeader(Profile)} :
          /\ Becomes(p)
          /\ jobs' = p.jobs
          /\ lastCall' = [op |-> "loadHeader"]

\* loadRules()
ProfileLoadRules ==
    /\ pc = "constructed"
    /\ \E call \in {loadRules(Profile)} :
          /\ Becomes(call.p)
          /\ jobs' = call.p.jobs
          /\ lastCall' = [op |-> "loadRules", returned |-> call.returned,
                          parsed |-> call.p.parsed]

\* checkUrl() on the profile in whatever state it is
ProfileCheckUrl(request) ==
    /\ pc = "constructed"
    /\ \E call \in {checkUrl(Profile, request)} :
          /\ Becomes(call.p)
          /\ jobs' = call.p.jobs
          /\ lastCall' = [op |-> "checkUrl", wasLoaded |-> m_wasLoaded,
                          wasTornDown |-> rootTornDown, request |-> request,
                          result |-> call.result, walked |-> call.walked,
                          walkedTornDown |-> call.walkedTornDown,
                          parsed |-> call.p.parsed]

\* getCosmeticFilters() on the profile in whatever state it is
ProfileGetCosmeticFilters(domains, isDomainOnly) ==
    /\ pc = "constructed"
    /\ \E call \in {getCosmeticFilters(Profile, domains, isDomainOnly)} :
          /\ Becomes(call.p)
          /\ jobs' = call.p.jobs
          /\ lastCall' = [op |-> "getCosmeticFilters"]

\* job j emits jobFinished(isSuccess): the slot handleJobFinished runs.  A job that
\* was cancelled or scheduled for deletion still exists until the event loop
\* deletes it, and its signal is still connected.  The history keeps the body only
\* when the slot got as far as reading it
JobFinished(j, isSuccess, body, canOpen, canCommit) ==
    /\ pc = "constructed"
    /\ j \in 1..Len(jobs)
    /\ jobs[j] \in {"running", "cancelled", "released"}
    /\ \E call \in {handleJobFinished(Profile, isSuccess, body, canOpen, canCommit)} :
          /\ Becomes(call.p)
          /\ jobs' = [call.p.jobs EXCEPT ![j] = "deleted"]
          /\ lastCall' = [op |-> "handleJobFinished", wasLoaded |-> m_wasLoaded, sender |-> j,
                          senderWas |-> jobs[j], isSuccess |-> isSuccess,
                          body |-> IF call.outcome = "NoJob" THEN <<>> ELSE body,
                          outcome |-> call.outcome]

\* the event loop deletes a job after deleteLater()
JobDeleted(j) ==
    /\ pc = "constructed"
    /\ j \in 1..Len(jobs)
    /\ jobs[j] \in {"cancelled", "released"}
    /\ jobs' = [jobs EXCEPT ![j] = "deleted"]
    /\ lastCall' = [op |-> "deleteLater"]
    /\ UNCHANGED <<tables, m_wasLoaded, cosmeticFiltersMode, wildcardsEnabled, pc, linesRead,
                   parsedLines, pattern, checkResult, cosmeticResult, header, m_dataFetchJob,
                   m_error, m_isEmpty, m_title, m_lastUpdate, m_updateUrl, m_updateInterval,
                   m_flags, fileAtPath, rootTornDown, callStack>>

NextProfile ==
    \/ \E call \in UpdateCalls : ProfileUpdate(call[1], call[2])
    \/ \E isRemoved \in BOOLEAN : ProfileRemove(isRemoved)
    \/ ProfileClear
    \/ ProfileLoadHeader
    \/ ProfileLoadRules
    \/ \E request \in ProfileRequests : ProfileCheckUrl(request)
    \/ ProfileGetCosmeticFilters(<<<<"d">>>>, FALSE)
    \/ \E j \in 1..MaxJobs, c \in Completions : JobFinished(j, c[1], c[2], c[3], c[4])
    \/ \E j \in 1..MaxJobs : JobDeleted(j)

SpecProfile == InitProfile /\ [][NextProfile]_vars

Next ==
    \/ \E line \in RuleLines : ParseRuleLine(line, MaxRules)
    \/ LoadRulesDone
    \/ \E request \in Requests : CheckUrl(request)

Spec == Init /\ [][Next]_vars

NextOptions ==
    \/ \E line \in OptionLines : ParseRuleLine(line, MaxRules)
    \/ LoadRulesDone
    \/ \E request \in OptionRequests : CheckUrl(request)

SpecOptions == Init /\ [][NextOptions]_vars

NextCosmetic ==
    \/ \E line \in CosmeticLines : ParseRuleLine(line, MaxCosmeticLines)
    \/ LoadRulesDone
    \/ \E domains \in DomainLists, isDomainOnly \in BOOLEAN : GetCosmeticFilters(domains, isDomainOnly)

SpecCosmetic == InitCosmetic /\ [][NextCosmetic]_vars

NextHeader == LoadHeaderOpen \/ LoadHeaderReadLine \/ LoadHeaderAtEnd

SpecHeader == InitHeader /\ [][NextHeader]_vars

NextWildcard ==
    \E line \in {pattern, Wrap(pattern)} : ParseRuleLine(line, MaxRules)

SpecWildcard == InitWildcard /\ [][NextWildcard]_vars

NextDomains ==
    \/ \E line \in DomainLines : ParseRuleLine(line, MaxRules)
    \/ LoadRulesDone
    \/ \E request \in DomainRequests : CheckUrl(request)

SpecDomains == Init /\ [][NextDomains]_vars

NextStar ==
    \/ \E line \in StarLines : ParseRuleLine(line, MaxRules)
    \/ LoadRulesDone
    \/ \E request \in StarRequests : CheckUrl(request)

SpecStar == Init /\ [][NextStar]_vars

NextException ==
    \/ \E line \in ExceptionLines : ParseRuleLine(line, MaxCosmeticLines)
    \/ LoadRulesDone
    \/ \E domains \in DomainLists, isDomainOnly \in BOOLEAN : GetCosmeticFilters(domains, isDomainOnly)

SpecException == InitCosmetic /\ [][NextException]_vars

NextAnchor ==
    \/ \E line \in AnchorLines : ParseRuleLine(line, MaxRules)
    \/ LoadRulesDone
    \/ \E request \in AnchorRequests : CheckUrl(request)

SpecAnchor == Init /\ [][NextAnchor]_vars

NextOptionList == ParseRuleLine(pattern, 1) \/ LoadRulesDone

SpecOptionList == InitOptionList /\ [][NextOptionList]_vars


(***************************************************************************)
(* Properties                                                              *)
(***************************************************************************)

\* the rules of a trie, each as <<node, index in the node's list>>
AllRules(root) == UNION {{<<n, i>> : i \in 1..Len(root[n].rules)} : n \in DOMAIN root}

RuleAt(root, at) == root[at[1]].rules[at[2]]

NoExceptionRules(root) == \A at \in AllRules(root) : ~RuleAt(root, at).isException

Checked == checkResult # None

ExceptionHits(evaluated) == {i \in 1..Len(evaluated) : evaluated[i].result.isException}

\* C1: checkUrl never returns a result that is both blocked and an exception, and
\* when any rule evaluation of the walk is an exception hit, the returned result is
\* that of the first exception hit: is_exception, not is_blocked, with its rule,
\* however many block hits came before it.
C1_ExceptionWins ==
    Checked =>
        LET result == checkResult.result
            hits == ExceptionHits(checkResult.evaluated)
        IN /\ ~(result.isBlocked /\ result.isException)
           /\ hits # {} =>
                /\ result.isException
                /\ ~result.isBlocked
                /\ result = checkResult.evaluated[Min(hits)].result
                /\ result.rule = checkResult.evaluated[Min(hits)].rule.rule

\* a walk in which a block hit is followed by an exception hit
C1_Witness ==
    /\ Checked
    /\ \E i, j \in 1..Len(checkResult.evaluated) :
          /\ i < j
          /\ checkResult.evaluated[i].result.isBlocked
          /\ checkResult.evaluated[j].result.isException

\* a non-exception rule with match mode Substring and no options or domain lists
PlainSubstringRule(rule) ==
    /\ ~rule.isException
    /\ rule.ruleMatch = "ContainsMatch"
    /\ rule.ruleOptions = {}
    /\ rule.ruleExceptions = {}
    /\ rule.blockedDomains = <<>>
    /\ rule.allowedDomains = <<>>

\* the rule at `at` is blocked by checkUrl, and echoed when it is the only rule
BlockedBy(at) ==
    /\ checkResult.result.isBlocked
    /\ AllRules(m_root) = {at} => checkResult.result.rule = RuleAt(m_root, at).rule

\* C2 as claimed: after inserting a non-exception Substring rule with residual
\* pattern p and no options or domain lists into a trie of non-exception rules,
\* every non-Popup request whose URL contains p is blocked (with the rule's raw
\* line when it is the only rule).
C2_Original ==
    Checked =>
        \A at \in AllRules(m_root) :
            (/\ PlainSubstringRule(RuleAt(m_root, at))
             /\ NoExceptionRules(m_root)
             /\ checkResult.request.resourceType # "PopupType"
             /\ Contains(checkResult.request.requestUrl, at[1]))
            => BlockedBy(at)

\* C2 as amended: the same for a rule without the "||" domain anchor and a request
\* whose URL is not empty.
C2_SubstringRuleBlocks ==
    Checked =>
        \A at \in AllRules(m_root) :
            (/\ PlainSubstringRule(RuleAt(m_root, at))
             /\ ~RuleAt(m_root, at).needsDomainCheck
             /\ NoExceptionRules(m_root)
             /\ checkResult.request.resourceType # "PopupType"
             /\ checkResult.request.requestUrl # <<>>
             /\ Contains(checkResult.request.requestUrl, at[1]))
            => BlockedBy(at)

\* a plain rule found in the middle of a URL, in a trie that holds another rule
C2_Witness ==
    /\ Checked
    /\ \E at \in AllRules(m_root) :
          /\ PlainSubstringRule(RuleAt(m_root, at))
          /\ ~RuleAt(m_root, at).needsDomainCheck
          /\ NoExceptionRules(m_root)
          /\ Cardinality(AllRules(m_root)) > 1
          /\ at[1] # <<>>
          /\ checkResult.request.resourceType # "PopupType"
          /\ Contains(checkResult.request.requestUrl, at[1])
          /\ ~StartsWith(checkResult.request.requestUrl, at[1])
          /\ checkResult.result.isBlocked

SingleRule(line) ==
    /\ Cardinality(AllRules(m_root)) = 1
    /\ \A at \in AllRules(m_root) : RuleAt(m_root, at).rule = line

\* C3: with the single rule a^b, a request whose URL contains a/b, a?b or a=b is
\* blocked (the separator stands for one character that is no letter, no digit and
\* none of _ - . %), and a URL that contains only a1b or aab is not.
C3_SeparatorMatching ==
    (Checked /\ SingleRule(<<"a", "^", "b">>) /\ checkResult.request.resourceType # "PopupType") =>
        LET url == checkResult.request.requestUrl
        IN /\ (\E c \in {"/", "?", "="} : Contains(url, <<"a", c, "b">>))
                => checkResult.result.isBlocked
           /\ url \in {<<"a", "1", "b">>, <<"a", "a", "b">>} => ~checkResult.result.isBlocked

\* C4: when the walk has consumed the whole URL at node n, the rules of n's "^"
\* child are evaluated: a rule whose residual pattern is p followed by "^" blocks a
\* request whose URL ends with p.
C4_EndOfUrlSeparator ==
    Checked =>
        \A at \in AllRules(m_root) :
            LET p == SubSeq(at[1], 1, Len(at[1]) - 1)
            IN (/\ PlainSubstringRule(RuleAt(m_root, at))
                /\ ~RuleAt(m_root, at).needsDomainCheck
                /\ NoExceptionRules(m_root)
                /\ at[1] # <<>>
                /\ at[1][Len(at[1])] = "^"
                /\ checkResult.request.resourceType # "PopupType"
                /\ p # <<>>
                /\ EndsWith(checkResult.request.requestUrl, p))
               => checkResult.result.isBlocked

\* the option bits that stand for a resource type
TypeOptions == {m_resourceTypes[key] : key \in DOMAIN m_resourceTypes}

TypeBits(options) == options \cap TypeOptions

\* the option bit of the request's resource type, if it maps to one
RequestOption(request) ==
    IF request.resourceType \in DOMAIN m_resourceTypes
    THEN {m_resourceTypes[request.resourceType]}
    ELSE {}

Applies(result) == result.isBlocked \/ result.isException

\* C5: for a rule whose pattern, domain and third-party checks pass, if the
\* request's resource type maps to a bit set in the rule's options the rule applies
\* whatever other type bits the options hold; if the rule has type bits and the
\* request's type maps to none of the bits in options, the rule applies only if
\* nothing but negated types are listed and the request's type is not one of them.
C5_ResourceTypeFiltering ==
    Checked =>
        \A i \in 1..Len(checkResult.evaluated) :
            LET e == checkResult.evaluated[i]
                request == checkResult.request
                passed == blockedBeforeResourceTypes(e.rule, e.currentRule, request)
            IN /\ (passed /\ RequestOption(request) \cap e.rule.ruleOptions # {})
                    => Applies(e.result)
               /\ (/\ passed
                   /\ TypeBits(e.rule.ruleOptions \cup e.rule.ruleExceptions) # {}
                   /\ RequestOption(request) \cap e.rule.ruleOptions = {}
                   /\ Applies(e.result))
                    => /\ TypeBits(e.rule.ruleOptions) = {}
                       /\ RequestOption(request) \cap e.rule.ruleExceptions = {}

\* C6: a rule with no resource-type bit in its options or exceptions (a rule with
\* only third-party, ~third-party or domain= among them) never applies to a request
\* of type Popup: checkRuleMatch returns neither a block nor an exception.
C6_PopupOptIn ==
    Checked =>
        \A i \in 1..Len(checkResult.evaluated) :
            LET e == checkResult.evaluated[i]
            IN (/\ e.rule.ruleOptions \cup e.rule.ruleExceptions \subseteq {"ThirdPartyOption"}
                /\ checkResult.request.resourceType = "PopupType")
               => ~Applies(e.result)

\* the request host and what follows each of its dots
HostSuffixes(host) == {Mid(host, k) : k \in {0} \cup {i \in 1..Len(host) : host[i] = "."}}

FirstParty(request) ==
    request.baseHost = <<>> \/ request.baseHost \in HostSuffixes(request.requestHost)

\* a non-exception rule without domain lists and resource-type bits whose pattern
\* and domain anchor match
MatchingUnscopedRule(e, request) ==
    /\ ~e.rule.isException
    /\ patternMatches(e.rule, e.currentRule, request)
    /\ domainAnchorMatches(e.rule, e.currentRule, request)
    /\ e.rule.blockedDomains = <<>>
    /\ e.rule.allowedDomains = <<>>
    /\ TypeBits(e.rule.ruleOptions \cup e.rule.ruleExceptions) = {}

\* C7: a matching rule with third-party in its options and no domain lists does not
\* block when base_host is empty, the request host or one of its suffixes, and
\* blocks otherwise; a rule with ~third-party blocks in the first-party case and not
\* otherwise.
C7_ThirdParty ==
    Checked =>
        \A i \in 1..Len(checkResult.evaluated) :
            LET e == checkResult.evaluated[i]
                request == checkResult.request
            IN MatchingUnscopedRule(e, request) =>
                /\ ("ThirdPartyOption" \in e.rule.ruleOptions \ e.rule.ruleExceptions)
                      => (e.result.isBlocked <=> ~FirstParty(request))
                /\ ("ThirdPartyOption" \in e.rule.ruleExceptions \ e.rule.ruleOptions)
                      => (e.result.isBlocked <=> FirstParty(request))

\* the trie holds a third-party and a ~third-party rule; a request from a base host
\* that is a proper suffix of the request host is let through by the first and
\* blocked by the second
C7_Witness ==
    /\ Checked
    /\ checkResult.request.baseHost = <<"t">>
    /\ \E i, j \in 1..Len(checkResult.evaluated) :
          LET e == checkResult.evaluated[i]
              f == checkResult.evaluated[j]
          IN /\ MatchingUnscopedRule(e, checkResult.request)
             /\ MatchingUnscopedRule(f, checkResult.request)
             /\ "ThirdPartyOption" \in e.rule.ruleOptions
             /\ ~e.result.isBlocked
             /\ "ThirdPartyOption" \in f.rule.ruleExceptions
             /\ f.result.isBlocked

Range(seq) == {seq[i] : i \in 1..Len(seq)}

\* the entries of a multimap whose key occurs in domains, by position
EntriesUnder(list, domains) == {j \in 1..Len(list) : list[j][1] \in Range(domains)}

\* selectors is made of the selectors stored under the keys that occur in domains:
\* nothing else, none left out, and once each when no domain is listed twice
ExactlyUnder(selectors, list, domains) ==
    /\ Range(selectors) = {list[j][2] : j \in EntriesUnder(list, domains)}
    /\ Cardinality(Range(domains)) = Len(domains)
          => Len(selectors) = Cardinality(EntriesUnder(list, domains))

\* C8: getCosmeticFilters(domains, domain_only) returns as selectors the global
\* selectors (stored only when the mode was AllFilters at parse time, returned only
\* when domain_only is false) followed by the selectors stored in the domain-rules
\* multimap under the keys that occur in domains, and as exceptions the selectors of
\* the domain-exceptions multimap under those keys; with domain_only no global
\* selector is returned.
C8_CosmeticRetrieval ==
    cosmeticResult # None =>
        LET global == IF cosmeticResult.isDomainOnly THEN <<>> ELSE m_cosmeticFiltersRules
            rules == cosmeticResult.rules
        IN /\ m_cosmeticFiltersRules # <<>> => cosmeticFiltersMode = "AllFilters"
           /\ Len(rules) >= Len(global)
           /\ SubSeq(rules, 1, Len(global)) = global
           /\ ExactlyUnder(SubSeq(rules, Len(global) + 1, Len(rules)),
                           m_cosmeticFiltersDomainRules, cosmeticResult.domains)
           /\ ExactlyUnder(cosmeticResult.exceptions, m_cosmeticFiltersDomainExceptions,
                           cosmeticResult.domains)

\* global, domain and exception selectors are all stored, and a domain-only query
\* returns the domain selectors and exceptions without the global ones
C8_Witness ==
    /\ cosmeticResult # None
    /\ cosmeticResult.isDomainOnly
    /\ m_cosmeticFiltersRules # <<>>
    /\ cosmeticResult.rules # <<>>
    /\ cosmeticResult.exceptions # <<>>
    /\ Len(m_cosmeticFiltersDomainRules) > Len(cosmeticResult.rules)

\* C9: loadHeader(path) reads the header line and at most 50 lines after it: no
\* line of the file beyond line 51 is read, whatever the file holds.
C9_HeaderScanBound ==
    header.pc \in {"loop", "done"} => header.pos <= HeaderLineLimit + 1

\* the trie nodes that hold a rule whose raw line is `line`
NodesHolding(root, line) ==
    {n \in DOMAIN root : \E i \in 1..Len(root[n].rules) : root[n].rules[i].rule = line}

\* C10: for every pattern text p (also one that begins or ends with "*"), parsing
\* the line *p* inserts its rule at the same trie node as parsing the line p.
C10_WildcardRemovalIdempotent ==
    (pattern # <<>> /\ {pattern, Wrap(pattern)} \subseteq parsedLines) =>
        NodesHolding(m_root, Wrap(pattern)) = NodesHolding(m_root, pattern)

\* the file at getPath() can be read and its first line does not contain "[Adblock"
\* in any letter case
HasInvalidHeader(found) ==
    /\ found # None
    /\ found.readable
    /\ ~ContainsCaseInsensitive(IF found.lines = <<>> THEN <<>> ELSE found.lines[1], str_adblock)

\* the calls that run loadRules when the profile is not loaded
LoadingCalls == {"loadRules", "checkUrl", "getCosmeticFilters"}

\* C11: while the file of the profile has no "[Adblock" in its first line, the
\* header scan reports ParseError, the loaded flag is not set, loadRules()
\* returns false and no line of the file has been handed to parseRuleLine,
\* whether the update URL is empty or not.
C11_InvalidHeaderRefusesLoad ==
    HasInvalidHeader(fileAtPath) =>
        /\ loadHeaderInformation(fileAtPath).error = "ParseError"
        /\ ~m_wasLoaded
        /\ (lastCall # None /\ lastCall.op = "loadRules") => ~lastCall.returned
        /\ (lastCall # None /\ lastCall.op \in {"loadRules", "checkUrl"}) => lastCall.parsed = <<>>

\* handleJobFinished has just written the downloaded body to the file
UpdateWritten ==
    lastCall # None /\ lastCall.op = "handleJobFinished" /\ lastCall.outcome = "Written"

\* C12: when handleJobFinished returns from a successful update of a profile that
\* was loaded, the loaded flag is true again and the trie is the one built from
\* the newly written file.
C12_ReloadAfterUpdate ==
    (UpdateWritten /\ lastCall.wasLoaded) =>
        /\ m_wasLoaded
        /\ ~rootTornDown
        /\ m_root = loadRules(Profile).p.m_root

\* the jobs that are fetching: started, and neither cancelled, released nor deleted
InFlight == {j \in 1..Len(jobs) : jobs[j] = "running"}

\* the members of the profile and the file at getPath() are left as they are
ProfileUnchanged ==
    UNCHANGED <<tables, m_wasLoaded, m_dataFetchJob, m_error, m_isEmpty, m_title,
                m_lastUpdate, m_updateUrl, m_updateInterval, m_flags, fileAtPath,
                rootTornDown>>

C14_CompletionAfterRemove ==
    [][(/\ lastCall' # None
        /\ lastCall'.op = "handleJobFinished"
        /\ jobs[lastCall'.sender] = "cancelled") => ProfileUnchanged]_vars

\* the ways an update completion fails
FailingOutcomes ==
    {"DownloadFailure", "InvalidHeader", "ChecksumMismatch", "OpenFailure", "CommitFailure"}

\* C15: on every failing path of an update completion the error state is set and
\* the file, m_lastUpdate, the loaded flag, the trie and the cosmetic tables are
\* what they were before the completion was handled.
C15_FailedUpdateKeepsState ==
    [][(/\ lastCall' # None
        /\ lastCall'.op = "handleJobFinished"
        /\ jobs[lastCall'.sender] # "deleted"
        /\ lastCall'.outcome \in FailingOutcomes) =>
           /\ m_error' # "NoError"
           /\ UNCHANGED <<fileAtPath, m_lastUpdate, m_wasLoaded, tables>>]_vars

\* the positions of the '^' children in the children list of a node
SeparatorChildren(root, n) == {j \in 1..Len(root[n].children) : root[n].children[j] = "^"}

\* C16: at every node of the trie a child whose value is '^' is the first of the
\* children, and there is at most one such child.
C16_SeparatorChildFirst ==
    \A n \in DOMAIN m_root : SeparatorChildren(m_root, n) \subseteq {1}

\* C16 witness: the lines a*b and a^b were parsed, and the node that holds both
\* children has '^' first
C16_Witness ==
    /\ parsedLines = {<<"a", "*", "b">>, <<"a", "^", "b">>}
    /\ \E n \in DOMAIN m_root :
           /\ Len(m_root[n].children) >= 2
           /\ m_root[n].children[1] = "^"
           /\ m_root[n].rules = <<>>

\* C17: for every rule stored in the trie, whatever the order, repetition and
\* negation of its option tokens, no option is in both ruleOptions and
\* ruleExceptions.
C17_OptionSetsDisjoint ==
    \A at \in AllRules(m_root) :
        RuleAt(m_root, at).ruleOptions \cap RuleAt(m_root, at).ruleExceptions = {}

\* some entry of the rule's allowedDomains is contained in the base host
InAllowedDomain(rule, request) ==
    \E i \in 1..Len(rule.allowedDomains) : Contains(request.baseHost, rule.allowedDomains[i])

\* C18: a rule with an allowedDomains entry contained in the base host yields no
\* hit, neither block nor exception, whatever other options it carries.
C18_AllowedDomainScope ==
    Checked =>
        \A i \in 1..Len(checkResult.evaluated) :
            LET e == checkResult.evaluated[i]
            IN InAllowedDomain(e.rule, checkResult.request) => ~Applies(e.result)

\* a completion that reported success was handled while a job was owned
UpdateBodyRead ==
    /\ lastCall # None
    /\ lastCall.op = "handleJobFinished"
    /\ lastCall.isSuccess
    /\ lastCall.outcome # "NoJob"

\* C19: an update completion accepts the downloaded body exactly when the header
\* scanner accepts a file with the same first line, that is when the line contains
\* "[Adblock" in any letter case; so the header written by create(),
\* "[AdBlock Plus 2.0]", is accepted by both.
C19_HeaderAcceptance ==
    UpdateBodyRead =>
        LET accepted == lastCall.outcome # "InvalidHeader"
            scan == loadHeaderInformation([readable |-> TRUE, lines |-> lastCall.body])
        IN /\ accepted <=> (scan.error # "ParseError")
           /\ accepted <=> ContainsCaseInsensitive(lastCall.body[1], str_adblock)

\* C20: no checkUrl walks a root that clear() has handed to deleteNode: a loaded
\* profile never points at such a root, and a checkUrl on a profile that is not
\* loaded either walks the root that its own loadRules has just built or returns
\* the empty result without walking.
C20_TornDownRootNotWalked ==
    /\ m_wasLoaded => (m_root # None /\ ~rootTornDown)
    /\ (lastCall # None /\ lastCall.op = "checkUrl") =>
           /\ lastCall.walked => (~lastCall.walkedTornDown /\ m_wasLoaded)
           /\ ~lastCall.walked => (lastCall.result = NoResult /\ lastCall.parsed = <<>>)
           /\ (lastCall.walked /\ lastCall.wasTornDown) => ~lastCall.wasLoaded

\* C20 witness: checkUrl was called while m_root pointed at a torn-down root, and
\* it walked a fresh one
C20_Witness ==
    /\ lastCall # None
    /\ lastCall.op = "checkUrl"
    /\ lastCall.wasTornDown
    /\ lastCall.walked
    /\ ~lastCall.walkedTornDown
    /\ lastCall.result.isBlocked

\* the rules stored at a '*' node whose parent is reached by letters only
StarRules(root) ==
    {at \in AllRules(root) :
        /\ at[1] # <<>>
        /\ at[1][Len(at[1])] = "*"
        /\ \A i \in 1..(Len(at[1]) - 1) : IsLetter(at[1][i])}

\* the rule was evaluated with this accumulated text
EvaluatedWith(rule, currentRule) ==
    \E i \in 1..Len(checkResult.evaluated) :
        /\ checkResult.evaluated[i].rule = rule
        /\ checkResult.evaluated[i].currentRule = currentRule

\* C21: when the walk stands at a node with a '*' child and the remaining slice s,
\* it descends into the '*' child once for each k in 0..Len(s), with the first k
\* characters of s appended to currentRule: so a rule stored at the '*' child is
\* evaluated with each of these texts, k = Len(s) and an empty s included.
C21_WildcardDescentCoversEverySplit ==
    (Checked /\ NoExceptionRules(m_root)) =>
        \A at \in StarRules(m_root) :
            LET url == checkResult.request.requestUrl
                prefix == SubSeq(at[1], 1, Len(at[1]) - 1)
            IN \A p \in 0..(Len(url) - 1) :
                   StartsWith(Mid(url, p), prefix) =>
                       LET s == Mid(url, p + Len(prefix))
                       IN \A k \in 0..Len(s) :
                              EvaluatedWith(RuleAt(m_root, at), prefix \o Left(s, k))

\* the pattern of a rule line once the options, the wildcards at its ends and the
\* anchors are taken off
AnchoredPattern(rule) == parseAnchors(rule, stripWildcards(rulePattern(rule))).line

\* the pattern from its character i on matches the URL from position j on: a
\* letter matches itself; '^' matches the end of the URL or a separator character,
\* which the rest of the pattern may or may not consume
RECURSIVE MatchesFrom(_, _, _, _)
MatchesFrom(line, i, url, j) ==
    IF i > Len(line) THEN TRUE
    ELSE IF line[i] = "^"
    THEN \/ j >= Len(url) /\ MatchesFrom(line, i + 1, url, j)
         \/ /\ j < Len(url)
            /\ isSeparatorPosition(url[j + 1])
            /\ MatchesFrom(line, i + 1, url, j + 1) \/ MatchesFrom(line, i + 1, url, j)
    ELSE j < Len(url) /\ url[j + 1] = line[i] /\ MatchesFrom(line, i + 1, url, j + 1)

\* C22: a rule anchored at the start (|p) yields a hit only when its whole
\* pattern, '^' separators included, matches at position 0 of the request URL;
\* |ab^ does not hit abxab/.
C22_StartAnchorPositional ==
    Checked =>
        \A i \in 1..Len(checkResult.evaluated) :
            LET e == checkResult.evaluated[i]
            IN (e.rule.ruleMatch = "StartMatch" /\ Applies(e.result)) =>
                   MatchesFrom(AnchoredPattern(e.rule.rule), 1, checkResult.request.requestUrl, 0)

\* a line of the form <domains>#@#<selector>: a non-empty domain list without
\* '#', the exception marker, then the selector
IsExceptionLine(line) ==
    /\ IndexOf(line, <<"#", "@", "#">>) > 0
    /\ ~Contains(Left(line, IndexOf(line, <<"#", "@", "#">>)), <<"#">>)

\* the step parsed a line not parsed before, and that line is an exception line
ParsedExceptionLine ==
    /\ parsedLines' # parsedLines
    /\ \A line \in parsedLines' \ parsedLines : IsExceptionLine(line)

\* C23: parsing a line <domains>#@#<selector>, whatever the selector (an id
\* selector beginning with '#' included), leaves the global selector list, the
\* domain-rules multimap and the trie unchanged.
C23_ExceptionLineFrame ==
    [][ParsedExceptionLine =>
           UNCHANGED <<m_root, m_cosmeticFiltersRules, m_cosmeticFiltersDomainRules>>]_vars

(***************************************************************************)
(* The matcher one step at a time.  callStack holds the frame of checkUrl  *)
(* and, above it, the frames of the calls of checkUrlSubstring in          *)
(* progress; a frame records the locals of the call and the statement it   *)
(* stands at.  The history of the checkRuleMatch calls is kept in the      *)
(* frame of checkUrl.                                                      *)
(***************************************************************************)

\* frames one behaviour may stack; the walk needs one frame per trie level and one
\* for checkUrl
MaxDepth == 8

\* rule lines with chains of '^' and '*' nodes
WalkLines ==
    {<<"^", "^">>,
     <<"a", "^", "^">>,
     <<"a", "*", "*", "b">>,
     <<"^", "*", "a">>}

WalkRequests ==
    {Request([requestUrl |-> u, requestHost |-> <<"a">>], <<>>, "ScriptType") :
        u \in {<<"a", "/">>, <<"/", "a">>, <<"a", "/", "b">>, <<"a", "b">>}}

\* checkUrlSubstring at its entry
Frame(node, subString, currentRule) ==
    [fn |-> "checkUrlSubstring", at |-> "urlLoop", node |-> node, subString |-> subString,
     currentRule |-> currentRule, i |-> 0, j |-> 0, k |-> 0, result |-> NoResult]

\* checkUrlSubstring(m_root, request.requestUrl.right(request.requestUrl.length() - i), {}, request)
checkUrlCall(request, i) ==
    Frame(<<>>, Right(request.requestUrl, Len(request.requestUrl) - i), <<>>)

\* checkUrlSubstring(nextNode, wildcardSubString.right(wildcardSubString.length() - k),
\*                   (currentRule + wildcardSubString.left(k)), request)
wildcardCall(node, nextNode, wildcardSubString, k, currentRule) ==
    Frame(nextNode, Right(wildcardSubString, Len(wildcardSubString) - k),
          currentRule \o Left(wildcardSubString, k))

\* the call of the '^' branch made on the node itself
separatorCall_onSameNode(node, nextNode, subString, i, currentRule) ==
    Frame(node, Mid(subString, i), currentRule)

\* checkUrlSubstring(nextNode, subString.mid(i), currentRule, request)
separatorCall(node, nextNode, subString, i, currentRule) ==
    Frame(nextNode, Mid(subString, i), currentRule)

Top == callStack[Len(callStack)]

InCheckUrl(at) == callStack # <<>> /\ Top.fn = "checkUrl" /\ Top.at = at

InSubstring(at) == callStack # <<>> /\ Top.fn = "checkUrlSubstring" /\ Top.at = at

\* the child the loop over node->children stands at, and the URL character
ChildValue(f) == m_root[f.node].children[f.j + 1]

TreeChar(f) == f.subString[f.i + 1]

\* everything but the call stack and the result of checkUrl
notWalk == <<tables, m_wasLoaded, cosmeticFiltersMode, wildcardsEnabled, pc, linesRead,
             parsedLines, pattern, cosmeticResult, header, lifeCycle>>

\* the top frame moves on; the rule evaluations it made join the history
Continue(f, evaluated) ==
    callStack' = [callStack EXCEPT ![Len(callStack)] = f, ![1].evaluated = @ \o evaluated]

\* a call: the frame of the callee goes on top
Call(callee) ==
    /\ Len(callStack) < MaxDepth
    /\ callStack' = Append(callStack, callee)

\* checkUrl on the loaded profile, up to its loop
CheckUrlBegin(request) ==
    /\ pc = "loaded"
    /\ m_wasLoaded
    /\ checkResult = None
    /\ cosmeticResult = None
    /\ callStack = <<>>
    /\ callStack' = <<[fn |-> "checkUrl", at |-> "loop", request |-> request, i |-> 0,
                       result |-> NoResult, evaluated |-> <<>>]>>
    /\ UNCHANGED <<checkResult, notWalk>>

\* for (i = 0; i < request.requestUrl.length(); ++i): the call, or the end of the loop
CheckUrlLoop ==
    /\ InCheckUrl("loop")
    /\ IF Top.i < Len(Top.request.requestUrl)
       THEN Call(checkUrlCall(Top.request, Top.i))
       ELSE callStack' = <<[Top EXCEPT !.at = "return"]>>
    /\ UNCHANGED <<checkResult, notWalk>>

\* checkUrl returns
CheckUrlReturn ==
    /\ InCheckUrl("return")
    /\ checkResult' = [request |-> Top.request, result |-> Top.result,
                       evaluated |-> Top.evaluated]
    /\ callStack' = <<>>
    /\ UNCHANGED notWalk

\* for (i = 0; i < subString.length(); ++i): the rules of the node are evaluated
UrlLoop ==
    /\ InSubstring("urlLoop")
    /\ Top.i < Len(Top.subString)
    /\ LET current == evaluateNodeRules(m_root, Top.node, Top.currentRule, callStack[1].request)
           taken == takeResult(Top.result, <<>>, current)
       IN Continue(IF taken.returned
                   THEN [Top EXCEPT !.at = "return", !.result = taken.result]
                   ELSE [Top EXCEPT !.at = "childLoop", !.j = 0, !.result = taken.result],
                   current.evaluated)
    /\ UNCHANGED <<checkResult, notWalk>>

\* the slice is consumed: the statements after the loop, up to the return
EndOfUrl ==
    /\ InSubstring("urlLoop")
    /\ Top.i >= Len(Top.subString)
    /\ LET done == endOfUrl(m_root, Top.node, Top.currentRule, callStack[1].request,
                            Top.result, <<>>)
       IN Continue([Top EXCEPT !.at = "return", !.result = done.result], done.evaluated)
    /\ UNCHANGED <<checkResult, notWalk>>

\* for (j = 0; j < node->children.count(); ++j); past the last child childrenExists
\* is false and the call returns result
ChildLoop ==
    /\ InSubstring("childLoop")
    /\ Continue(IF Top.j >= Len(m_root[Top.node].children) THEN [Top EXCEPT !.at = "return"]
                ELSE IF ChildValue(Top) = "*" THEN [Top EXCEPT !.at = "wildcardLoop", !.k = 0]
                ELSE [Top EXCEPT !.at = "separator"],
                <<>>)
    /\ UNCHANGED <<checkResult, notWalk>>

\* for (k = 0; k < wildcardSubString.length(); ++k): the call into the '*' child
WildcardLoop ==
    /\ InSubstring("wildcardLoop")
    /\ LET wildcardSubString == Mid(Top.subString, Top.i)
       IN IF Top.k < Len(wildcardSubString)
          THEN Call(wildcardCall(Top.node, Append(Top.node, ChildValue(Top)), wildcardSubString,
                                 Top.k, Top.currentRule))
          ELSE Continue([Top EXCEPT !.at = "separator"], <<>>)
    /\ UNCHANGED <<checkResult, notWalk>>

\* the '^' branch: the call into the '^' child on the same slice
Separator ==
    /\ InSubstring("separator")
    /\ IF ChildValue(Top) = "^" /\ isSeparatorPosition(TreeChar(Top))
       THEN Call(separatorCall(Top.node, Append(Top.node, ChildValue(Top)), Top.subString,
                               Top.i, Top.currentRule))
       ELSE Continue([Top EXCEPT !.at = "literal"], <<>>)
    /\ UNCHANGED <<checkResult, notWalk>>

\* if (nextNode->value == treeChar): the walk moves to the child and to the next
\* character; otherwise the next child is tried
Literal ==
    /\ InSubstring("literal")
    /\ Continue(IF ChildValue(Top) = TreeChar(Top)
                THEN [Top EXCEPT !.node = Append(@, TreeChar(Top)),
                                 !.currentRule = Append(@, TreeChar(Top)),
                                 !.i = @ + 1, !.at = "urlLoop"]
                ELSE [Top EXCEPT !.j = @ + 1, !.at = "childLoop"],
                <<>>)
    /\ UNCHANGED <<checkResult, notWalk>>

\* checkUrlSubstring returns: the caller takes the result and goes on after the call,
\* or returns itself on an exception
SubstringReturn ==
    /\ InSubstring("return")
    /\ LET n == Len(callStack)
           caller == callStack[n - 1]
           taken == takeResult(caller.result, <<>>, [result |-> Top.result, evaluated |-> <<>>])
           resumed == IF taken.returned
                      THEN [caller EXCEPT !.at = "return", !.result = taken.result]
                      ELSE IF caller.fn = "checkUrl"
                      THEN [caller EXCEPT !.i = @ + 1, !.result = taken.result]
                      ELSE IF caller.at = "wildcardLoop"
                      THEN [caller EXCEPT !.k = @ + 1, !.result = taken.result]
                      ELSE [caller EXCEPT !.at = "literal", !.result = taken.result]
       IN callStack' = [SubSeq(callStack, 1, n - 1) EXCEPT ![n - 1] = resumed]
    /\ UNCHANGED <<checkResult, notWalk>>

\* the statements of checkUrl and checkUrlSubstring once checkUrl is entered
WalkStep ==
    \/ CheckUrlLoop
    \/ CheckUrlReturn
    \/ UrlLoop
    \/ EndOfUrl
    \/ ChildLoop
    \/ WildcardLoop
    \/ Separator
    \/ Literal
    \/ SubstringReturn

NextWalk ==
    \/ \E line \in WalkLines : ParseRuleLine(line, MaxRules)
    \/ LoadRulesDone
    \/ \E request \in WalkRequests : CheckUrlBegin(request)
    \/ WalkStep

\* a call that has been entered keeps executing
SpecWalk == Init /\ [][NextWalk]_vars /\ WF_vars(WalkStep)

\* the walk in steps returns what checkUrlLoaded computes
WalkAgreesWithCheckUrl ==
    (checkResult # None) =>
        LET r == checkUrlLoaded(m_root, checkResult.request)
        IN checkResult.result = r.result /\ checkResult.evaluated = r.evaluated

IsProperPrefix(s, t) == Len(s) < Len(t) /\ SubSeq(t, 1, Len(s)) = s

\* the length of the longest path of the trie
TrieDepth(root) == CHOOSE d \in 0..(MaxPatternLen + 2) :
                       /\ \E n \in DOMAIN root : Len(n) = d
                       /\ \A n \in DOMAIN root : Len(n) <= d

\* every call of checkUrlSubstring in progress is on a strict descendant of the
\* node of its caller, so the stack is no deeper than the trie
RecursionDescends ==
    /\ \A f \in 3..Len(callStack) : IsProperPrefix(callStack[f - 1].node, callStack[f].node)
    /\ Len(callStack) <= TrieDepth(m_root) + 2

\* C24: the matcher terminates: every recursive call of checkUrlSubstring is on a
\* strict descendant node, chains of '^' and '*' nodes included, and a checkUrl
\* that has been entered returns.
C24_MatcherTerminates ==
    /\ []RecursionDescends
    /\ (callStack # <<>>) ~> (callStack = <<>> /\ checkResult # None)

\* C24 witness: two zero-width '^' descents in a row are in progress on the same
\* slice: the frame on top stands two '^' nodes below its caller's caller
C24_Witness ==
    \E f \in 3..(Len(callStack) - 1) :
        /\ callStack[f].node = Append(callStack[f - 1].node, "^")
        /\ callStack[f + 1].node = Append(callStack[f].node, "^")
        /\ callStack[f + 1].subString = callStack[f - 1].subString
        /\ callStack[f - 1].subString # <<>>

====
